---- MODULE Spec2Model ----
(***************************************************************************)
(* Model of claude_code/utils/subprocess.py: the blocking runner           *)
(* run_command, the streaming runner stream_command and the JSON decoder   *)
(* stream_json_command, together with the subprocess they spawn, its pipes *)
(* and the timeout timer thread; and of Conversation.send, which calls     *)
(* run_command.                                                            *)
(*                                                                         *)
(* Python's None is the empty tuple, a present value v is <<v>>.  Text and *)
(* bytes are tuples of one-character strings; "nl" is the newline, "x" is  *)
(* a byte that is not valid UTF-8 and "?" the replacement character.       *)
(* The text layer of Popen(universal_newlines=True) decodes strictly; the  *)
(* model takes the locale encoding to be UTF-8.                            *)
(***************************************************************************)
EXTENDS Integers, Sequences, FiniteSets, TLC

VARIABLES
    mode,         \* "run", "stream", "json" (stream_json_command), "send"
    timeout,      \* the timeout argument: None, <<0>> or <<1>>
    input_data,   \* the input_data argument: None, <<"">> as <<<<>>>>, or text
    parentStdin,  \* standard input of the calling process: "eof" or "live"
    environ,      \* os.environ of the calling process
    env,          \* the env argument: None or a mapping
    max_turns,    \* Conversation.max_turns: None or a number
    pc,           \* position of the call / of the generator
    procState,    \* "none", "running", "zombie" (exited, not reaped), "reaped"
    exitCode,     \* exit status of the subprocess once it has exited
    stdoutOpen,   \* the subprocess still holds the write end of stdout
    stdinPhase,   \* the subprocess's read of stdin: "unread", "reading", "read"
    childStdin,   \* what the subprocess's standard input is attached to
    sent,         \* the lines the subprocess has written, without newline
    written,      \* the same lines as they went into the stdout pipe
    errWritten,   \* the bytes the subprocess has written to stderr
    nread,        \* lines the caller has taken out of the stdout pipe
    nreadErr,     \* bytes the caller has taken out of the stderr pipe
    yielded,      \* the lines handed to the consumer so far
    timer,        \* "none", "pending", "cancelled", "killed", "expired"
    store,        \* the temporary input file: "none", "open", "closed"
    stderrRead,   \* process.stderr.read() has been called (stream mode)
    result,       \* what run_command / stream_command returned or raised
    cause,        \* the exception as it was raised inside stream_command
    storeText,    \* what has been written to the temporary input file
    merged_env,   \* the environment handed to the subprocess
    jpc,          \* position of the stream_json_command generator
    nproc,        \* lines stream_json_command has taken from stream_command
    records,      \* the values stream_json_command has yielded
    jresult,      \* what stream_json_command raised or how it ended
    cpc,          \* position of Conversation.send: "idle", "sending"
    turn_count,   \* Conversation.turn_count
    convResult,    \* what the last Conversation.send returned or raised
    auth_provider, \* the AuthProvider object last constructed, or None
    client,       \* the ClaudeCode object last constructed, or None
    conversation, \* the settings of the Conversation object, or None
    newResult,    \* how the last constructor or configuring call ended
    output_format, \* Conversation.output_format
    cmd,          \* the command _build_command built for the invocation
    nconv,        \* chunks Conversation.stream / stream_json has passed on
    inv,          \* two concurrent stream_command invocations, by number
    actor,        \* the invocation whose thread took the last step
    errPipe       \* the stderr pipe: its capacity, and whether the
                  \* subprocess is blocked in a write to it

vars == <<mode, timeout, input_data, parentStdin, environ, env, max_turns,
          pc, procState, exitCode, stdoutOpen, stdinPhase, childStdin, sent,
          written, errWritten, nread, nreadErr, yielded, timer, store,
          stderrRead, result, cause, storeText, merged_env, jpc, nproc,
          records, jresult, cpc, turn_count, convResult, auth_provider,
          client, conversation, newResult, output_format, cmd, nconv, inv,
          actor, errPipe>>

procVars == <<procState, exitCode, stdoutOpen, stdinPhase, sent, written,
              errWritten>>

argVars == <<mode, timeout, input_data, parentStdin, environ, env, max_turns>>

jsonVars == <<jpc, nproc, records, jresult>>

convVars == <<cpc, turn_count, convResult>>

objVars == <<auth_provider, client, conversation, newResult, output_format,
             cmd, nconv, inv, actor, errPipe>>

----------------------------------------------------------------------------
(* Bounds *)

MaxLines == 2

MaxErr == 2

PipeCap == 1

----------------------------------------------------------------------------
(* Values *)

None == <<>>

Some(v) == <<v>>

SIGKILL == 9

NL == "nl"

InvalidByte == "x"

Replacement == "?"

OutBytes == {"a", "1", " ", InvalidByte}

ErrBytes == {"e", InvalidByte}

LineSet == {<<>>} \cup {<<b>> : b \in OutBytes}

ExitCodes == {0, 1}

Timeouts == {None, Some(0), Some(1)}

Inputs == {None, Some(<<>>), Some(<<"p">>)}

\* Python truthiness of an Optional[int]: None and 0 are false.
TruthyInt(t) == t # None /\ t[1] # 0

\* truth value of an Optional[str]
TruthyText(x) == x # None /\ x[1] # ""

\* truth value of an Optional[List[str]]
TruthyList(x) == x # None /\ x[1] # <<>>

\* Python truthiness of an Optional[str]: None and "" are false.
TruthyStr(s) == s # None /\ s[1] # <<>>

NoResult ==
    [kind |-> "none", exit_code |-> None, stdout |-> None, stderr |-> None,
     msg |-> ""]

\* ExecutionError(message, exit_code=None, stdout=None, stderr=None)
ExecutionError(m, code, out, err) ==
    [kind |-> "ExecutionError", exit_code |-> code, stdout |-> out,
     stderr |-> err, msg |-> m]

\* TimeoutError subclasses ExecutionError and adds nothing.
TimeoutError(m, code, out, err) ==
    [kind |-> "TimeoutError", exit_code |-> code, stdout |-> out,
     stderr |-> err, msg |-> m]

----------------------------------------------------------------------------
(* Pure helpers *)

RECURSIVE Flatten(_)
Flatten(ss) == IF ss = <<>> THEN <<>> ELSE Head(ss) \o Flatten(Tail(ss))

\* bytes.decode("utf-8", errors="replace")
Decode(bs) ==
    [i \in 1..Len(bs) |-> IF bs[i] = InvalidByte THEN Replacement ELSE bs[i]]

\* strict decoding succeeds
IsText(bs) == \A i \in 1..Len(bs) : bs[i] # InvalidByte

\* the line is yielded as it was read
RstripNone(s) == s

\* str.rstrip("\n")
RECURSIVE Rstrip(_)
Rstrip(s) ==
    IF s # <<>> /\ s[Len(s)] = NL THEN Rstrip(SubSeq(s, 1, Len(s) - 1)) ELSE s

Terminated(l) == l # <<>> /\ l[Len(l)] = NL

\* no unfinished line is at the end of what was written
LastTerminated(w) == IF w = <<>> THEN TRUE ELSE Terminated(w[Len(w)])

IsPrefix(s, t) == Len(s) <= Len(t) /\ SubSeq(t, 1, Len(s)) = s

\* poll() takes every subprocess for a running one
PollAlive(ps) == "running"

\* Popen.poll(): waitpid(WNOHANG), which reaps a child that has exited.
Poll(ps) == IF ps = "zombie" THEN "reaped" ELSE ps

\* the exit status is taken without waiting for the child
WaitNoReap(ps) == ps

\* Popen.wait() returning: the child has exited and is reaped.
Wait(ps) == "reaped"

\* readline returns at a newline or at end-of-file
LineAvailable(l, open) == IF Terminated(l) THEN TRUE ELSE ~open

\* the iteration starts over at the first line each time
NextLineFirst(w, n) == w[1]

\* the line the iteration over process.stdout hands out next
NextLine(w, n) == w[n + 1]

----------------------------------------------------------------------------
\* the environment of the calling process
Environs ==
    {[k \in {"HOME", "ANTHROPIC_MODEL"} |-> "inherited"],
     [k \in {"HOME"} |-> "inherited"]}

\* the env argument: None, {} or a mapping
Overlays ==
    {None, Some(<<>>),
     Some([k \in {"ANTHROPIC_MODEL", "ANTHROPIC_API_KEY"} |-> "overlay"])}

\* no constructor has been called
NoCall == [call |-> "none", args |-> <<>>, kind |-> "none", msg |-> ""]

\* the numbers of the two concurrent invocations
InvIds == {1, 2}

\* an invocation of stream_command that has not started: its locals
\* process, timer and temp_file do not exist yet
FreshInv ==
    [timeout |-> None, input_data |-> None, pc |-> "init",
     procState |-> "none", exitCode |-> None, stdoutOpen |-> FALSE,
     childStdin |-> "none", stdinRead |-> None, written |-> <<>>,
     nread |-> 0, yielded |-> <<>>, timer |-> "none", store |-> "none",
     result |-> NoResult]

\* nothing has been called yet
Start ==
    /\ auth_provider = None
    /\ client = None
    /\ newResult = NoCall
    /\ cmd = None
    /\ nconv = 0
    /\ inv = [i \in InvIds |-> FreshInv]
    /\ actor = 0
    /\ pc = "init"
    /\ cause = NoResult
    /\ storeText = None
    /\ merged_env = None
    /\ jpc = "init"
    /\ nproc = 0
    /\ records = <<>>
    /\ jresult = NoResult
    /\ cpc = "idle"
    /\ turn_count = 0
    /\ convResult = NoResult
    /\ procState = "none"
    /\ exitCode = None
    /\ stdoutOpen = FALSE
    /\ stdinPhase = "unread"
    /\ childStdin = "none"
    /\ sent = <<>>
    /\ written = <<>>
    /\ errWritten = <<>>
    /\ nread = 0
    /\ nreadErr = 0
    /\ yielded = <<>>
    /\ timer = "none"
    /\ store = "none"
    /\ stderrRead = FALSE
    /\ result = NoResult

\* one call of run_command or of stream_command
Init ==
    /\ mode \in {"run", "stream"}
    /\ timeout \in Timeouts
    /\ input_data \in Inputs
    /\ parentStdin \in {"eof", "live"}
    /\ environ \in {e \in Environs : "ANTHROPIC_MODEL" \in DOMAIN e}
    /\ env = None
    /\ max_turns = None
    /\ conversation = None
    /\ output_format = "text"
    /\ Start
    /\ errPipe = [cap |-> MaxErr, blocked |-> FALSE]

----------------------------------------------------------------------------
(* The subprocess *)

\* end of file is reachable on the subprocess's standard input
StdinAtEOF ==
    \/ childStdin \in {"store", "pipe"}
    \/ childStdin = "inherited" /\ parentStdin = "eof"

CanAct ==
    /\ procState = "running"
    /\ stdinPhase # "reading"
    /\ ~errPipe.blocked

\* the subprocess starts reading its standard input to end-of-file
ProcReadStdin ==
    /\ CanAct
    /\ stdinPhase = "unread"
    /\ sent = <<>> /\ errWritten = <<>> /\ stdoutOpen
    /\ stdinPhase' = "reading"
    /\ UNCHANGED <<argVars, objVars, jsonVars, convVars, cause, storeText,
                   merged_env, pc, procState, exitCode, stdoutOpen, childStdin,
                   sent, written, errWritten, nread, nreadErr, yielded, timer,
                   store, stderrRead, result>>

\* the read of standard input reaches end-of-file
ProcStdinEOF ==
    /\ procState = "running"
    /\ stdinPhase = "reading"
    /\ StdinAtEOF
    /\ stdinPhase' = "read"
    /\ UNCHANGED <<argVars, objVars, jsonVars, convVars, cause, storeText,
                   merged_env, pc, procState, exitCode, stdoutOpen, childStdin,
                   sent, written, errWritten, nread, nreadErr, yielded, timer,
                   store, stderrRead, result>>

\* the subprocess writes one line to stdout; only its last line may lack
\* the newline, and a full pipe blocks it
ProcWrite ==
    /\ CanAct
    /\ stdoutOpen
    /\ Len(sent) < MaxLines
    /\ Len(written) - nread < PipeCap
    /\ LastTerminated(written)
    /\ \E l \in LineSet, term \in BOOLEAN :
          /\ term \/ l # <<>>
          /\ sent' = Append(sent, l)
          /\ written' = Append(written, IF term THEN l \o <<NL>> ELSE l)
    /\ UNCHANGED <<argVars, objVars, jsonVars, convVars, cause, storeText,
                   merged_env, pc, procState, exitCode, stdoutOpen, stdinPhase,
                   childStdin, errWritten, nread, nreadErr, yielded, timer,
                   store, stderrRead, result>>

\* the subprocess writes a byte to stderr when the pipe has room for it
ProcWriteErr ==
    /\ CanAct
    /\ Len(errWritten) < MaxErr
    /\ Len(errWritten) - nreadErr < errPipe.cap
    /\ \E b \in ErrBytes : errWritten' = Append(errWritten, b)
    /\ UNCHANGED <<argVars, objVars, jsonVars, convVars, cause, storeText,
                   merged_env, pc, procState, exitCode, stdoutOpen, stdinPhase,
                   childStdin, sent, written, nread, nreadErr, yielded, timer,
                   store, stderrRead, result>>

\* the subprocess closes its stdout and keeps running
ProcCloseStdout ==
    /\ CanAct
    /\ stdoutOpen
    /\ stdoutOpen' = FALSE
    /\ UNCHANGED <<argVars, objVars, jsonVars, convVars, cause, storeText,
                   merged_env, pc, procState, exitCode, stdinPhase, childStdin,
                   sent, written, errWritten, nread, nreadErr, yielded, timer,
                   store, stderrRead, result>>

ProcExit ==
    /\ CanAct
    /\ \E c \in ExitCodes : exitCode' = Some(c)
    /\ procState' = "zombie"
    /\ stdoutOpen' = FALSE
    /\ UNCHANGED <<argVars, objVars, jsonVars, convVars, cause, storeText,
                   merged_env, pc, stdinPhase, childStdin, sent, written,
                   errWritten, nread, nreadErr, yielded, timer, store,
                   stderrRead, result>>

\* Popen.kill() on a child: SIGKILL ends a running child, exited ones are
\* left as they are
KilledState(ps) == IF ps = "running" THEN "zombie" ELSE ps

KilledCode(ps, code) == IF ps = "running" THEN Some(0 - SIGKILL) ELSE code

----------------------------------------------------------------------------
(* Exceptions raised below the two runners *)

Exc(k) ==
    [kind |-> k, exit_code |-> None, stdout |-> None, stderr |-> None,
     msg |-> ""]

\* what Popen / subprocess.run can raise at launch: OSError covers
\* FileNotFoundError and PermissionError
LaunchErrors == {"OSError", "SubprocessError"}

\* every exception is wrapped, the package's own ones as well
StreamHandlerWrapAll(e) ==
    ExecutionError("Error running command", None, None, None)

\* stream_command, except Exception: TimeoutError and ExecutionError are
\* re-raised, everything else is wrapped
StreamHandler(e) ==
    IF e.kind \in {"TimeoutError", "ExecutionError"}
    THEN e
    ELSE ExecutionError("Error running command", None, None, None)

\* stream_command, except Exception: if process.poll() is None, kill and wait
CleanupState(ps) ==
    IF Poll(ps) = "running" THEN Wait(KilledState(ps)) ELSE Poll(ps)

\* the temporary file is never closed
StoreLeftOpen(st) == st

\* stream_command, finally: close the temporary file if one was created
StoreClosed(st) == IF st = "open" THEN "closed" ELSE st

\* the error is raised without reading stderr
ExitErrorNoStderr(code, err) ==
    [kind |-> "ExecutionError", exit_code |-> Some(code),
     stdout |-> Some(<<>>), stderr |-> None,
     msg |-> "Command failed with exit code"]

\* the error raised after the output is exhausted and the exit code is not 0
ExitError(code, err) ==
    ExecutionError("Command failed with exit code", Some(code), Some(<<>>),
                   Some(err))

----------------------------------------------------------------------------
(* stream_command *)

\* stream_command is called directly, by stream_json_command ("json"), by
\* Conversation.stream ("cstream"), or by stream_json_command under
\* Conversation.stream_json ("cjson")
StreamModes == {"stream", "json", "cstream", "cjson"}

JsonModes == {"json", "cjson"}

\* the next() that resumes stream_command comes from the consumer, or from
\* the for loop of the generator above it once that is done with the last
\* line
CanPull ==
    \/ mode = "stream"
    \/ mode \in JsonModes /\ jpc = "running" /\ nproc = Len(yielded)
    \/ mode = "cstream" /\ cpc = "running" /\ nconv = Len(yielded)

\* on a key of both mappings the inherited value is kept
MergeEnvBaseWins(base, over) ==
    IF over # None /\ over[1] # <<>>
    THEN [k \in DOMAIN base \cup DOMAIN over[1] |->
              IF k \in DOMAIN base THEN base[k] ELSE over[1][k]]
    ELSE base

\* merged_env = os.environ.copy(); if env: merged_env.update(env)
MergeEnv(base, over) ==
    IF over # None /\ over[1] # <<>>
    THEN [k \in DOMAIN base \cup DOMAIN over[1] |->
              IF k \in DOMAIN over[1] THEN over[1][k] ELSE base[k]]
    ELSE base

\* the temporary file after write, flush and seek(0): None without input
StoreText(inp) == IF TruthyStr(inp) THEN Some(inp[1]) ELSE None

\* what Popen gets as stdin: the temporary file, or None (inherit)
StreamStdin(inp) == IF TruthyStr(inp) THEN "store" ELSE "inherited"

\* no timer is ever started
TimerStartNever(t) == "none"

\* if timeout: threading.Timer(timeout, kill_process).start()
TimerStart(t) == IF TruthyInt(t) THEN "pending" ELSE "none"

\* the timer is left as it is
TimerCancelNever(t, tm) == tm

\* if timeout: timer.cancel()
TimerCancel(t, tm) == IF TruthyInt(t) /\ tm = "pending" THEN "cancelled" ELSE tm

\* first next(): merge the environment, write the input to a temporary
\* file, spawn the subprocess, start the timer
StreamStart ==
    /\ mode \in StreamModes
    /\ pc = "init"
    /\ CanPull
    /\ merged_env' = Some(MergeEnv(environ, env))
    /\ storeText' = StoreText(input_data)
    /\ store' = IF TruthyStr(input_data) THEN "open" ELSE "none"
    /\ childStdin' = StreamStdin(input_data)
    /\ procState' = "running"
    /\ stdoutOpen' = TRUE
    /\ timer' = TimerStart(timeout)
    /\ pc' = "reading"
    /\ UNCHANGED <<argVars, objVars, jsonVars, convVars, cause, exitCode, stdinPhase,
                   sent, written, errWritten, nread, nreadErr, yielded,
                   stderrRead, result>>

\* first next() when Popen raises: "process" is not bound, the error is
\* wrapped, the temporary file is closed
StreamSpawnFail ==
    /\ mode \in StreamModes
    /\ pc = "init"
    /\ CanPull
    /\ merged_env' = Some(MergeEnv(environ, env))
    /\ storeText' = StoreText(input_data)
    /\ \E k \in LaunchErrors :
          /\ cause' = Exc(k)
          /\ result' = StreamHandler(Exc(k))
    /\ store' = StoreClosed(IF TruthyStr(input_data) THEN "open" ELSE "none")
    /\ pc' = "raised"
    /\ UNCHANGED <<argVars, objVars, jsonVars, convVars, procVars, childStdin, nread,
                   nreadErr, yielded, timer, stderrRead>>

\* a later next(): the generator resumes after the yield
Pull ==
    /\ mode \in StreamModes
    /\ pc = "suspended"
    /\ CanPull
    /\ pc' = "reading"
    /\ UNCHANGED <<argVars, objVars, jsonVars, convVars, cause, storeText, merged_env,
                   procVars, childStdin, nread, nreadErr, yielded, timer,
                   store, stderrRead, result>>

\* for line in process.stdout: yield line.rstrip("\n")
StreamYield ==
    /\ mode \in StreamModes
    /\ pc = "reading"
    /\ nread < Len(written)
    /\ LET line == NextLine(written, nread) IN
          /\ LineAvailable(line, stdoutOpen)
          /\ IsText(line)
          /\ yielded' = Append(yielded, Rstrip(line))
    /\ nread' = nread + 1
    /\ pc' = "suspended"
    /\ UNCHANGED <<argVars, objVars, jsonVars, convVars, cause, storeText, merged_env,
                   procVars, childStdin, nreadErr, timer, store, stderrRead,
                   result>>

\* the text layer reads a chunk holding a byte it cannot decode: the
\* UnicodeDecodeError goes through except Exception and finally
StreamDecodeError ==
    /\ mode \in StreamModes
    /\ pc = "reading"
    /\ \E i \in (nread + 1)..Len(written) : ~IsText(written[i])
    /\ procState' = CleanupState(procState)
    /\ exitCode' = KilledCode(procState, exitCode)
    /\ stdoutOpen' = FALSE
    /\ UNCHANGED stdinPhase
    /\ cause' = Exc("UnicodeDecodeError")
    /\ result' = StreamHandler(Exc("UnicodeDecodeError"))
    /\ store' = StoreClosed(store)
    /\ pc' = "raised"
    /\ UNCHANGED <<argVars, objVars, jsonVars, convVars, storeText, merged_env,
                   childStdin, sent, written, errWritten, nread, nreadErr,
                   yielded, timer, stderrRead>>

\* the iteration over process.stdout reaches end-of-file; process.wait()
StreamEOF ==
    /\ mode \in StreamModes
    /\ pc = "reading"
    /\ nread = Len(written)
    /\ ~stdoutOpen
    /\ pc' = "waiting"
    /\ UNCHANGED <<argVars, objVars, jsonVars, convVars, cause, storeText, merged_env,
                   procVars, childStdin, nread, nreadErr, yielded, timer,
                   store, stderrRead, result>>

\* process.wait() returns; cancel the timer; raise on a non-zero exit code
StreamFinish ==
    /\ mode \in StreamModes
    /\ pc = "waiting"
    /\ procState \in {"zombie", "reaped"}
    /\ procState' = Wait(procState)
    /\ timer' = TimerCancel(timeout, timer)
    /\ IF exitCode[1] # 0
       THEN /\ stderrRead' = TRUE
            /\ nreadErr' = Len(errWritten)
            /\ cause' = IF IsText(errWritten)
                        THEN ExitError(exitCode[1], errWritten)
                        ELSE Exc("UnicodeDecodeError")
            /\ result' = StreamHandler(cause')
            /\ pc' = "raised"
       ELSE /\ pc' = "done"
            /\ result' = Exc("StopIteration")
            /\ UNCHANGED <<stderrRead, nreadErr, cause>>
    /\ store' = StoreClosed(store)
    /\ UNCHANGED <<argVars, objVars, jsonVars, convVars, storeText, merged_env,
                   exitCode, stdoutOpen, stdinPhase, childStdin, sent,
                   written, errWritten, nread, yielded>>

\* the generator is closed or dropped: directly by the consumer, or, under
\* stream_json_command, when the generator that iterated over it is gone
CanAbandon ==
    \/ mode = "stream" /\ pc \in {"init", "suspended"}
    \/ mode \in JsonModes /\ jpc \in {"raised", "closed"} /\ pc = "suspended"
    \/ mode = "cstream" /\ cpc = "closed" /\ pc = "suspended"

\* the generator is closed or dropped: GeneratorExit is raised at the
\* yield; it is not an Exception, so only the finally block runs.  A
\* generator that was never started runs nothing at all.
Abandon ==
    /\ CanAbandon
    /\ pc' = "closed"
    /\ store' = StoreClosed(store)
    /\ UNCHANGED <<argVars, objVars, jsonVars, convVars, cause, storeText, merged_env,
                   procVars, childStdin, nread, nreadErr, yielded, timer,
                   stderrRead, result>>

\* the timer thread runs kill_process
TimerFire ==
    /\ timer = "pending"
    /\ IF Poll(procState) = "running"
       THEN /\ procState' = KilledState(procState)
            /\ exitCode' = KilledCode(procState, exitCode)
            /\ stdoutOpen' = FALSE
            /\ UNCHANGED stdinPhase
            /\ timer' = "killed"
       ELSE /\ procState' = Poll(procState)
            /\ timer' = "expired"
            /\ UNCHANGED <<exitCode, stdoutOpen>>
    /\ UNCHANGED <<argVars, objVars, jsonVars, convVars, cause, storeText, merged_env,
                   pc, stdinPhase, childStdin, sent, written, errWritten,
                   nread, nreadErr, yielded, store, stderrRead, result>>

----
(* run_command *)

\* TimeoutExpired.stdout / .stderr: the bytes communicate() had collected,
\* None when it had collected no chunk
CapturedOrNone(bs) == IF bs = <<>> THEN None ELSE Some(bs)

TimeoutExpired(out, err) ==
    [kind |-> "TimeoutExpired", exit_code |-> None,
     stdout |-> CapturedOrNone(out), stderr |-> CapturedOrNone(err),
     msg |-> ""]

\* the captured bytes are passed on without decoding
TimeoutTextRaw(o) == IF o # None THEN o[1] ELSE <<>>

\* e.stdout.decode("utf-8", errors="replace") if e.stdout else ""
TimeoutText(o) == IF o # None /\ o[1] # <<>> THEN Decode(o[1]) ELSE <<>>

\* subprocess.run(check=True): a non-zero exit code raises
RunResultChecked(code, out, err) ==
    [kind |-> IF code = 0 THEN "return" ELSE "ExecutionError",
     exit_code |-> Some(code), stdout |-> Some(Decode(out)),
     stderr |-> Some(Decode(err)), msg |-> ""]

\* the return statement of run_command
RunResult(code, out, err) ==
    [kind |-> "return", exit_code |-> Some(code), stdout |-> Some(Decode(out)),
     stderr |-> Some(Decode(err)), msg |-> ""]

\* the except clauses of run_command: TimeoutExpired, then SubprocessError;
\* any other exception leaves run_command as it is
RunHandler(e) ==
    CASE e.kind = "TimeoutExpired" ->
             TimeoutError("Command timed out", None,
                          Some(TimeoutText(e.stdout)),
                          Some(TimeoutText(e.stderr)))
      [] e.kind = "SubprocessError" ->
             ExecutionError("Error running command", None, None, None)
      [] OTHER -> e

\* the standard input subprocess.run gives the child: a pipe that carries
\* the input and is then closed, or the caller's own standard input
RunStdin(inp) == IF TruthyStr(inp) THEN "pipe" ELSE "inherited"

RunModes == {"run", "send"}

\* run_command is called directly, or by Conversation.send
CanRun == mode = "run" \/ (mode = "send" /\ cpc = "sending")

\* subprocess.run spawns the child and starts communicate()
RunStart ==
    /\ mode \in RunModes
    /\ pc = "init"
    /\ CanRun
    /\ merged_env' = Some(MergeEnv(environ, env))
    /\ procState' = "running"
    /\ stdoutOpen' = TRUE
    /\ childStdin' = RunStdin(input_data)
    /\ pc' = "communicating"
    /\ UNCHANGED <<argVars, objVars, jsonVars, convVars, cause, storeText,
                   exitCode, stdinPhase, sent, written, errWritten,
                   nread, nreadErr, yielded, timer, store, stderrRead, result>>

\* subprocess.run fails to launch the child
RunSpawnFail ==
    /\ mode \in RunModes
    /\ pc = "init"
    /\ CanRun
    /\ merged_env' = Some(MergeEnv(environ, env))
    /\ \E k \in LaunchErrors : result' = RunHandler(Exc(k))
    /\ pc' = "raised"
    /\ UNCHANGED <<argVars, objVars, jsonVars, convVars, cause, storeText,
                   procVars, childStdin, nread, nreadErr, yielded,
                   timer, store, stderrRead>>

\* communicate() collects a chunk of stdout
RunCaptureOut ==
    /\ mode \in RunModes
    /\ pc = "communicating"
    /\ nread < Len(written)
    /\ nread' = nread + 1
    /\ UNCHANGED <<argVars, objVars, jsonVars, convVars, cause, storeText,
                   merged_env, procVars, pc, childStdin, nreadErr, yielded,
                   timer, store, stderrRead, result>>

\* communicate() collects a chunk of stderr
RunCaptureErr ==
    /\ mode \in RunModes
    /\ pc = "communicating"
    /\ nreadErr < Len(errWritten)
    /\ nreadErr' = nreadErr + 1
    /\ UNCHANGED <<argVars, objVars, jsonVars, convVars, cause, storeText,
                   merged_env, procVars, pc, childStdin, nread, yielded,
                   timer, store, stderrRead, result>>

\* both pipes are at end-of-file and the child has exited: return the triple
RunReturn ==
    /\ mode \in RunModes
    /\ pc = "communicating"
    /\ procState = "zombie"
    /\ nread = Len(written)
    /\ nreadErr = Len(errWritten)
    /\ procState' = Wait(procState)
    /\ result' = RunResult(exitCode[1], Flatten(written), errWritten)
    /\ pc' = "returned"
    /\ UNCHANGED <<argVars, objVars, jsonVars, convVars, cause, storeText,
                   merged_env, exitCode, stdoutOpen, stdinPhase, childStdin,
                   sent, written, errWritten, nread, nreadErr, yielded, timer,
                   store, stderrRead>>

\* the timeout elapses inside communicate(): subprocess.run kills the child,
\* waits for it and re-raises TimeoutExpired, which run_command converts
RunTimeout ==
    /\ mode \in RunModes
    /\ pc = "communicating"
    /\ timeout # None
    /\ procState' = Wait(KilledState(procState))
    /\ exitCode' = KilledCode(procState, exitCode)
    /\ stdoutOpen' = FALSE
    /\ UNCHANGED stdinPhase
    /\ result' = RunHandler(TimeoutExpired(
                     Flatten(SubSeq(written, 1, nread)),
                     SubSeq(errWritten, 1, nreadErr)))
    /\ pc' = "raised"
    /\ UNCHANGED <<argVars, objVars, jsonVars, convVars, cause, storeText,
                   merged_env, childStdin, sent, written, errWritten, nread,
                   nreadErr, yielded, timer, store, stderrRead>>

----------------------------------------------------------------------------
(* stream_json_command *)

Whitespace == {" ", NL}

\* str.strip()
RECURSIVE Strip(_)
Strip(s) ==
    IF s = <<>> THEN s
    ELSE IF s[1] \in Whitespace THEN Strip(Tail(s))
    ELSE IF s[Len(s)] \in Whitespace THEN Strip(SubSeq(s, 1, Len(s) - 1))
    ELSE s

\* only the empty line counts as blank
IsBlankEmpty(l) == l = <<>>

\* not line.strip()
IsBlank(l) == Strip(l) = <<>>

\* json.loads accepts the line: here, a number written with the digit 1,
\* with any whitespace around it
JsonValid(l) ==
    LET s == Strip(l) IN s # <<>> /\ \A i \in 1..Len(s) : s[i] = "1"

\* the value json.loads returns for a line it accepts
RECURSIVE JsonLoads(_)
JsonLoads(l) ==
    LET s == Strip(l) IN
    IF Len(s) <= 1 THEN 1 ELSE 10 * JsonLoads(SubSeq(s, 1, Len(s) - 1)) + 1

\* except json.JSONDecodeError as e: raise ValueError(...) from e
JsonHandler(e) ==
    IF e.kind = "JSONDecodeError"
    THEN [kind |-> "ValueError", exit_code |-> None, stdout |-> None,
          stderr |-> None, msg |-> "Error parsing JSON from command output"]
    ELSE e

\* the next() on the stream_json_command generator comes from the consumer,
\* or from the for loop of Conversation.stream_json
CanPullJson ==
    \/ mode = "json"
    \/ mode = "cjson" /\ cpc = "running" /\ nconv = Len(records)

\* next() on the stream_json_command generator
JsonPull ==
    /\ CanPullJson
    /\ jpc \in {"init", "suspended"}
    /\ jpc' = "running"
    /\ UNCHANGED <<argVars, objVars, convVars, cause, storeText, merged_env, procVars,
                   pc, childStdin, nread, nreadErr, yielded, timer, store,
                   stderrRead, result, nproc, records, jresult>>

\* the line stream_command has just yielded and the for loop has not
\* looked at yet
HasLine == mode \in JsonModes /\ jpc = "running" /\ pc = "suspended"
               /\ nproc < Len(yielded)

\* if not line.strip(): continue
JsonBlank ==
    /\ HasLine
    /\ IsBlank(yielded[nproc + 1])
    /\ nproc' = nproc + 1
    /\ UNCHANGED <<argVars, objVars, convVars, cause, storeText, merged_env, procVars,
                   pc, childStdin, nread, nreadErr, yielded, timer, store,
                   stderrRead, result, jpc, records, jresult>>

\* yield json.loads(line)
JsonYield ==
    /\ HasLine
    /\ ~IsBlank(yielded[nproc + 1])
    /\ JsonValid(yielded[nproc + 1])
    /\ records' = Append(records, JsonLoads(yielded[nproc + 1]))
    /\ nproc' = nproc + 1
    /\ jpc' = "suspended"
    /\ UNCHANGED <<argVars, objVars, convVars, cause, storeText, merged_env, procVars,
                   pc, childStdin, nread, nreadErr, yielded, timer, store,
                   stderrRead, result, jresult>>

\* the bad line is dropped and the loop goes on
JsonErrorSkip ==
    /\ HasLine
    /\ ~IsBlank(yielded[nproc + 1])
    /\ ~JsonValid(yielded[nproc + 1])
    /\ nproc' = nproc + 1
    /\ UNCHANGED <<argVars, objVars, convVars, cause, storeText, merged_env, procVars,
                   pc, childStdin, nread, nreadErr, yielded, timer, store,
                   stderrRead, result, jpc, records, jresult>>

\* json.loads raises JSONDecodeError: the generator ends with ValueError
JsonError ==
    /\ HasLine
    /\ ~IsBlank(yielded[nproc + 1])
    /\ ~JsonValid(yielded[nproc + 1])
    /\ jresult' = JsonHandler(Exc("JSONDecodeError"))
    /\ nproc' = nproc + 1
    /\ jpc' = "raised"
    /\ UNCHANGED <<argVars, objVars, convVars, cause, storeText, merged_env, procVars,
                   pc, childStdin, nread, nreadErr, yielded, timer, store,
                   stderrRead, result, records>>

\* an exception of stream_command is turned into a ValueError
PassThroughWrapped(e) ==
    IF e.kind = "StopIteration" THEN e
    ELSE [kind |-> "ValueError", exit_code |-> None, stdout |-> None,
          stderr |-> None, msg |-> "Error parsing JSON from command output"]

\* what leaves stream_json_command when stream_command ends or raises: the
\* for statement is outside the try, nothing catches the exception
PassThrough(e) == e

\* stream_command has ended or raised inside the for statement
JsonFinish ==
    /\ mode \in JsonModes
    /\ jpc = "running"
    /\ pc \in {"done", "raised"}
    /\ jpc' = pc
    /\ jresult' = PassThrough(result)
    /\ UNCHANGED <<argVars, objVars, convVars, cause, storeText, merged_env, procVars,
                   pc, childStdin, nread, nreadErr, yielded, timer, store,
                   stderrRead, result, nproc, records>>

\* the stream_json_command generator is closed or dropped: by the consumer,
\* or when the Conversation.stream_json generator above it is closed
CanAbandonJson == mode = "json" \/ (mode = "cjson" /\ cpc = "closed")

JsonAbandon ==
    /\ CanAbandonJson
    /\ jpc \in {"init", "suspended"}
    /\ jpc' = "closed"
    /\ UNCHANGED <<argVars, objVars, convVars, cause, storeText, merged_env, procVars,
                   pc, childStdin, nread, nreadErr, yielded, timer, store,
                   stderrRead, result, nproc, records, jresult>>

\* one call of stream_json_command
JsonInit ==
    /\ mode = "json"
    /\ timeout \in Timeouts
    /\ input_data \in {None, Some(<<"p">>)}
    /\ parentStdin = "eof"
    /\ environ \in {e \in Environs : "ANTHROPIC_MODEL" \in DOMAIN e}
    /\ env = None
    /\ max_turns = None
    /\ conversation = None
    /\ output_format = "text"
    /\ Start
    /\ errPipe = [cap |-> MaxErr, blocked |-> FALSE]

JsonNext ==
    \/ ProcReadStdin
    \/ ProcStdinEOF
    \/ ProcWrite
    \/ ProcWriteErr
    \/ ProcCloseStdout
    \/ ProcExit
    \/ StreamStart
    \/ StreamSpawnFail
    \/ Pull
    \/ StreamYield
    \/ StreamDecodeError
    \/ StreamEOF
    \/ StreamFinish
    \/ Abandon
    \/ TimerFire
    \/ JsonPull
    \/ JsonBlank
    \/ JsonYield
    \/ JsonError
    \/ JsonFinish
    \/ JsonAbandon

JsonSpec == JsonInit /\ [][JsonNext]_vars

----------------
Next ==
    \/ ProcReadStdin
    \/ ProcStdinEOF
    \/ ProcWrite
    \/ ProcWriteErr
    \/ ProcCloseStdout
    \/ ProcExit
    \/ StreamStart
    \/ StreamSpawnFail
    \/ Pull
    \/ StreamYield
    \/ StreamDecodeError
    \/ StreamEOF
    \/ StreamFinish
    \/ Abandon
    \/ TimerFire
    \/ RunStart
    \/ RunSpawnFail
    \/ RunCaptureOut
    \/ RunCaptureErr
    \/ RunReturn
    \/ RunTimeout

Spec == Init /\ [][Next]_vars

----------------------------------------------------------------------------
TypeOK ==
    /\ mode \in {"run", "stream", "json", "send", "cstream", "cjson",
                "pair", "turns"}
    /\ pc \in {"init", "reading", "suspended", "waiting", "done", "raised",
               "closed", "communicating", "returned"}
    /\ jpc \in {"init", "running", "suspended", "done", "raised", "closed"}
    /\ cpc \in {"idle", "sending", "returned", "raised", "running",
                "suspended", "done", "closed"}
    /\ nproc \in 0..Len(yielded)
    /\ turn_count \in Nat
    /\ procState \in {"none", "running", "zombie", "reaped"}
    /\ timer \in {"none", "pending", "cancelled", "killed", "expired"}
    /\ store \in {"none", "open", "closed"}
    /\ nread \in 0..Len(written)
    /\ nreadErr \in 0..Len(errWritten)
    /\ Len(sent) = Len(written)

----------------------------------------------------------------------------
(* Conversation.send *)

MaxSends == 2

Prompts == {<<>>, <<" ">>, <<"p">>}

\* max_turns as given to the constructor
MaxTurnsArgs == {None, Some(1)}

ValidationError(m) ==
    [kind |-> "ValidationError", exit_code |-> None, stdout |-> None,
     stderr |-> None, msg |-> m]

\* only the empty prompt is rejected
EmptyPromptOnly(prompt) == prompt = <<>>

\* if not prompt or not prompt.strip()
EmptyPrompt(prompt) == prompt = <<>> \/ Strip(prompt) = <<>>

\* the turns are never counted against max_turns
TurnsExhaustedNever(mt, n) == FALSE

\* if self.max_turns and self.turn_count >= self.max_turns
TurnsExhausted(mt, n) == TruthyInt(mt) /\ n >= mt[1]

\* the state of run_command before it is called
RunFresh ==
    /\ pc' = "init"
    /\ procState' = "none"
    /\ exitCode' = None
    /\ stdoutOpen' = FALSE
    /\ stdinPhase' = "unread"
    /\ childStdin' = "none"
    /\ sent' = <<>>
    /\ written' = <<>>
    /\ errWritten' = <<>>
    /\ nread' = 0
    /\ nreadErr' = 0
    /\ merged_env' = None
    /\ result' = NoResult

\* ",".join(tools)
RECURSIVE Join(_)
Join(l) == IF Len(l) = 1 THEN l[1] ELSE l[1] \o "," \o Join(Tail(l))

\* the command without the flags
BuildCommandNoFlags(c, n) == <<"claude", "-p">>

\* Conversation._build_command with turn_count = n
BuildCommand(c, n) ==
    <<"claude", "-p">>
    \o (IF c.output_format # "text"
        THEN <<"--output-format", c.output_format>> ELSE <<>>)
    \o (IF n > 0 THEN <<"-c">> ELSE <<>>)
    \o (IF TruthyList(c.allowed_tools)
        THEN <<"--allowedTools", Join(c.allowed_tools[1])>> ELSE <<>>)
    \o (IF TruthyList(c.disallowed_tools)
        THEN <<"--disallowedTools", Join(c.disallowed_tools[1])>> ELSE <<>>)
    \o (IF TruthyInt(c.max_turns)
        THEN <<"--max-turns", ToString(c.max_turns[1])>> ELSE <<>>)
    \o (IF TruthyText(c.mcp_config)
        THEN <<"--mcp-config", c.mcp_config[1]>> ELSE <<>>)

\* a Conversation object with these three settings
ConversationWith(mt, to, fmt) ==
    Some([allowed_tools |-> Some(<<"Bash", "Edit">>),
          disallowed_tools |-> None, max_turns |-> mt,
          mcp_config |-> Some("given"), model |-> None, timeout |-> to,
          output_format |-> fmt])

\* send(prompt) is called: the two validations, then run_command is called
\* with the prompt as input
ConvSend ==
    /\ mode = "send"
    /\ cpc \in {"idle", "returned", "raised"}
    /\ turn_count < MaxSends
    /\ \E prompt \in Prompts :
          IF EmptyPrompt(prompt)
          THEN /\ convResult' = ValidationError("Prompt cannot be empty")
               /\ cpc' = "raised"
               /\ UNCHANGED <<input_data, pc, procVars, childStdin, nread,
                              nreadErr, merged_env, result, cmd>>
          ELSE IF TurnsExhausted(max_turns, turn_count)
          THEN /\ convResult' = ValidationError(
                      "Conversation has reached the maximum number of turns")
               /\ cpc' = "raised"
               /\ UNCHANGED <<input_data, pc, procVars, childStdin, nread,
                              nreadErr, merged_env, result, cmd>>
          ELSE /\ cmd' = Some(BuildCommand(conversation[1], turn_count))
               /\ input_data' = Some(prompt)
               /\ convResult' = NoResult
               /\ cpc' = "sending"
               /\ RunFresh
    /\ UNCHANGED <<mode, timeout, parentStdin, environ, env, max_turns,
                   jsonVars, turn_count, cause, storeText, yielded, timer,
                   store, stderrRead, auth_provider, client, conversation,
                   newResult, output_format, nconv, inv, actor, errPipe>>

\* the turn is counted whatever run_command gave
NextTurnCountAlways(r, n) == n + 1

\* self.turn_count += 1 is only reached when run_command returned and the
\* exit code is 0
NextTurnCount(r, n) ==
    IF r.kind = "return" /\ r.exit_code = Some(0) THEN n + 1 ELSE n

\* what send gives its caller: an exception of run_command as it is, an
\* ExecutionError for a non-zero exit code, or the stdout
SendOutcome(r) ==
    IF r.kind # "return" THEN r
    ELSE IF r.exit_code # Some(0)
    THEN ExecutionError("Claude Code failed with exit code", r.exit_code,
                        r.stdout, r.stderr)
    ELSE [kind |-> "return", exit_code |-> None, stdout |-> r.stdout,
          stderr |-> None, msg |-> ""]

\* run_command has returned or raised: the rest of send
ConvSendFinish ==
    /\ mode = "send"
    /\ cpc = "sending"
    /\ pc \in {"returned", "raised"}
    /\ convResult' = SendOutcome(result)
    /\ turn_count' = NextTurnCount(result, turn_count)
    /\ cpc' = IF convResult'.kind = "return" THEN "returned" ELSE "raised"
    /\ UNCHANGED <<argVars, objVars, jsonVars, cause, storeText, merged_env, procVars,
                   pc, childStdin, nread, nreadErr, yielded, timer, store,
                   stderrRead, result>>

\* a new Conversation
ConvInit ==
    /\ mode = "send"
    /\ timeout \in {None, Some(1)}
    /\ input_data = None
    /\ parentStdin = "eof"
    /\ environ \in {e \in Environs : "ANTHROPIC_MODEL" \in DOMAIN e}
    /\ env \in {o \in Overlays : o # None /\ o[1] # <<>>}
    /\ max_turns \in MaxTurnsArgs
    /\ output_format = "text"
    /\ conversation = ConversationWith(max_turns, timeout, output_format)
    /\ Start
    /\ errPipe = [cap |-> MaxErr, blocked |-> FALSE]

ConvNext ==
    \/ ProcReadStdin
    \/ ProcStdinEOF
    \/ ProcWrite
    \/ ProcWriteErr
    \/ ProcCloseStdout
    \/ ProcExit
    \/ RunStart
    \/ RunSpawnFail
    \/ RunCaptureOut
    \/ RunCaptureErr
    \/ RunReturn
    \/ RunTimeout
    \/ ConvSend
    \/ ConvSendFinish

ConvSpec == ConvInit /\ [][ConvNext]_vars

----------------------------------------------------------------------------
(* Conversation.stream and Conversation.stream_json *)

ConvStreamModes == {"cstream", "cjson"}

\* the state of stream_command and stream_json_command before they are
\* called
StreamFresh ==
    /\ pc' = "init"
    /\ procState' = "none"
    /\ exitCode' = None
    /\ stdoutOpen' = FALSE
    /\ stdinPhase' = "unread"
    /\ childStdin' = "none"
    /\ sent' = <<>>
    /\ written' = <<>>
    /\ errWritten' = <<>>
    /\ nread' = 0
    /\ nreadErr' = 0
    /\ yielded' = <<>>
    /\ timer' = "none"
    /\ store' = "none"
    /\ stderrRead' = FALSE
    /\ result' = NoResult
    /\ cause' = NoResult
    /\ storeText' = None
    /\ merged_env' = None
    /\ jpc' = "init"
    /\ nproc' = 0
    /\ records' = <<>>
    /\ jresult' = NoResult
    /\ nconv' = 0

\* the ValidationError the head of stream / stream_json raises, "" when it
\* raises none: the output format (stream_json only), the prompt, the turns
StreamValidationMsg(m, fmt, prompt, mt, n) ==
    IF m = "cjson" /\ fmt # "stream-json"
    THEN "Output format must be STREAM_JSON for stream_json"
    ELSE IF EmptyPrompt(prompt) THEN "Prompt cannot be empty"
    ELSE IF TurnsExhausted(mt, n)
    THEN "Conversation has reached the maximum number of turns"
    ELSE ""

\* stream(prompt) / stream_json(prompt) is called and the first next() runs
\* the generator up to the for statement: the validations, the command, the
\* call of stream_command / stream_json_command
ConvStreamNext ==
    /\ mode \in ConvStreamModes
    /\ cpc \in {"idle", "done", "raised", "closed"}
    /\ pc # "suspended"
    /\ jpc # "suspended"
    /\ turn_count < MaxSends
    /\ \E prompt \in Prompts :
          LET msg == StreamValidationMsg(mode, output_format, prompt,
                                         max_turns, turn_count)
          IN  IF msg # ""
              THEN /\ convResult' = ValidationError(msg)
                   /\ cpc' = "raised"
                   /\ UNCHANGED <<input_data, cmd, pc, procVars, childStdin,
                                  nread, nreadErr, yielded, timer, store,
                                  stderrRead, result, cause, storeText,
                                  merged_env, jsonVars, nconv>>
              ELSE /\ cmd' = Some(BuildCommand(conversation[1], turn_count))
                   /\ input_data' = Some(prompt)
                   /\ convResult' = NoResult
                   /\ cpc' = "running"
                   /\ StreamFresh
    /\ UNCHANGED <<mode, timeout, parentStdin, environ, env, max_turns,
                   turn_count, auth_provider, client, conversation, newResult,
                   output_format, inv, actor, errPipe>>

\* the chunks the generator under Conversation.stream / stream_json has
\* yielded
Chunks == IF mode = "cjson" THEN records ELSE yielded

\* the position of the generator under Conversation.stream / stream_json
InnerPc == IF mode = "cjson" THEN jpc ELSE pc

\* what the generator under Conversation.stream / stream_json ended with
InnerResult == IF mode = "cjson" THEN jresult ELSE result

\* for chunk in ...: yield chunk
ConvStreamYield ==
    /\ mode \in ConvStreamModes
    /\ cpc = "running"
    /\ InnerPc = "suspended"
    /\ nconv < Len(Chunks)
    /\ nconv' = nconv + 1
    /\ cpc' = "suspended"
    /\ UNCHANGED <<argVars, jsonVars, turn_count, convResult, procVars, pc,
                   childStdin, nread, nreadErr, yielded, timer, store,
                   stderrRead, result, cause, storeText, merged_env,
                   auth_provider, client, conversation, newResult,
                   output_format, cmd, inv, actor, errPipe>>

\* a later next(): the generator resumes after its yield
ConvStreamResume ==
    /\ mode \in ConvStreamModes
    /\ cpc = "suspended"
    /\ cpc' = "running"
    /\ UNCHANGED <<argVars, jsonVars, turn_count, convResult, procVars, pc,
                   childStdin, nread, nreadErr, yielded, timer, store,
                   stderrRead, result, cause, storeText, merged_env,
                   objVars>>

\* the turn is counted however the iteration ended
StreamTurnCountAlways(ipc, n) == n + 1

\* self.turn_count += 1 is only reached when the for statement has ended
StreamTurnCount(ipc, n) == IF ipc = "done" THEN n + 1 ELSE n

\* the iteration has ended or raised inside the for statement
ConvStreamFinish ==
    /\ mode \in ConvStreamModes
    /\ cpc = "running"
    /\ InnerPc \in {"done", "raised"}
    /\ cpc' = InnerPc
    /\ convResult' = InnerResult
    /\ turn_count' = StreamTurnCount(InnerPc, turn_count)
    /\ UNCHANGED <<argVars, jsonVars, procVars, pc, childStdin, nread,
                   nreadErr, yielded, timer, store, stderrRead, result, cause,
                   storeText, merged_env, objVars>>

\* the consumer closes or drops the generator: GeneratorExit at the yield
ConvStreamClose ==
    /\ mode \in ConvStreamModes
    /\ cpc = "suspended"
    /\ cpc' = "closed"
    /\ UNCHANGED <<argVars, jsonVars, turn_count, convResult, procVars, pc,
                   childStdin, nread, nreadErr, yielded, timer, store,
                   stderrRead, result, cause, storeText, merged_env,
                   objVars>>

\* a Conversation whose turns all go through one of send, stream and
\* stream_json
ConvAllInit ==
    /\ mode \in {"send", "cstream", "cjson"}
    /\ timeout \in {None, Some(1)}
    /\ input_data = None
    /\ parentStdin = "eof"
    /\ environ \in {e \in Environs : "ANTHROPIC_MODEL" \in DOMAIN e}
    /\ env \in {o \in Overlays : o # None /\ o[1] # <<>>}
    /\ max_turns \in MaxTurnsArgs
    /\ output_format \in
           IF mode = "cjson" THEN {"text", "stream-json"} ELSE {"text"}
    /\ conversation = ConversationWith(max_turns, timeout, output_format)
    /\ Start
    /\ errPipe = [cap |-> MaxErr, blocked |-> FALSE]

ConvAllNext ==
    \/ ProcReadStdin
    \/ ProcStdinEOF
    \/ ProcWrite
    \/ ProcWriteErr
    \/ ProcCloseStdout
    \/ ProcExit
    \/ RunStart
    \/ RunSpawnFail
    \/ RunCaptureOut
    \/ RunCaptureErr
    \/ RunReturn
    \/ RunTimeout
    \/ ConvSend
    \/ ConvSendFinish
    \/ StreamStart
    \/ StreamSpawnFail
    \/ Pull
    \/ StreamYield
    \/ StreamDecodeError
    \/ StreamEOF
    \/ StreamFinish
    \/ Abandon
    \/ TimerFire
    \/ JsonPull
    \/ JsonBlank
    \/ JsonYield
    \/ JsonError
    \/ JsonFinish
    \/ JsonAbandon
    \/ ConvStreamNext
    \/ ConvStreamYield
    \/ ConvStreamResume
    \/ ConvStreamFinish
    \/ ConvStreamClose

ConvAllSpec == ConvAllInit /\ [][ConvAllNext]_vars

----------------------------------------------------------------------------
(* AuthProvider, ClaudeCode.__init__ and start_conversation *)

AuthTypes == {"ANTHROPIC_API", "AWS_BEDROCK", "GOOGLE_VERTEX"}

\* an Optional[str] argument: None, the empty string or a value
TextArgs == {None, Some(""), Some("given")}

\* an Optional[List[str]] of tool names: None, [] or a list
ToolLists == {None, Some(<<>>), Some(<<"Bash">>), Some(<<"Edit">>)}

\* an Optional[int] argument
IntArgs == {None, Some(0), Some(2)}

\* the environments a client is constructed in
ClientEnvirons ==
    Environs \cup
    {[k \in {"HOME", "ANTHROPIC_API_KEY", "AWS_REGION", "CLOUD_ML_REGION",
             "ANTHROPIC_VERTEX_PROJECT_ID", "ANTHROPIC_MODEL"} |->
          "inherited"]}

\* os.environ.get(k)
EnvGet(e, k) == IF k \in DOMAIN e THEN Some(e[k]) ELSE None

\* how a constructor call ended
Outcome(c, a, k, m) == [call |-> c, args |-> a, kind |-> k, msg |-> m]

\* the project id is not looked at
ValidateMsgNoProject(p) ==
    CASE p.auth_type = "ANTHROPIC_API" /\ ~TruthyText(p.api_key) ->
             "API key is required for Anthropic API authentication"
      [] p.auth_type = "AWS_BEDROCK" /\ ~TruthyText(p.region) ->
             "Region is required for AWS Bedrock authentication"
      [] p.auth_type = "GOOGLE_VERTEX" /\ ~TruthyText(p.region) ->
             "Region is required for Google Vertex AI authentication"
      [] OTHER -> ""

\* AuthProvider._validate: the message of the AuthenticationError it
\* raises, "" when it raises none
ValidateMsg(p) ==
    CASE p.auth_type = "ANTHROPIC_API" /\ ~TruthyText(p.api_key) ->
             "API key is required for Anthropic API authentication"
      [] p.auth_type = "AWS_BEDROCK" /\ ~TruthyText(p.region) ->
             "Region is required for AWS Bedrock authentication"
      [] p.auth_type = "GOOGLE_VERTEX" /\ ~TruthyText(p.region) ->
             "Region is required for Google Vertex AI authentication"
      [] p.auth_type = "GOOGLE_VERTEX" /\ ~TruthyText(p.project_id) ->
             "Project ID is required for Google Vertex AI authentication"
      [] OTHER -> ""

\* os.environ.get("ANTHROPIC_MODEL", "claude-3-7-sonnet-20250219")
DefaultModel(e) ==
    IF "ANTHROPIC_MODEL" \in DOMAIN e
    THEN Some(e["ANTHROPIC_MODEL"])
    ELSE Some("claude-3-7-sonnet-20250219")

\* AuthProvider.update_from_environment
UpdateFromEnvironment(p, e) ==
    LET q == CASE p.auth_type = "ANTHROPIC_API" /\ ~TruthyText(p.api_key) ->
                      [p EXCEPT !.api_key = EnvGet(e, "ANTHROPIC_API_KEY")]
               [] p.auth_type = "AWS_BEDROCK" /\ ~TruthyText(p.region) ->
                      [p EXCEPT !.region = EnvGet(e, "AWS_REGION")]
               [] p.auth_type = "GOOGLE_VERTEX" ->
                      [p EXCEPT
                         !.region = IF TruthyText(p.region) THEN p.region
                                    ELSE EnvGet(e, "CLOUD_ML_REGION"),
                         !.project_id =
                             IF TruthyText(p.project_id) THEN p.project_id
                             ELSE EnvGet(e, "ANTHROPIC_VERTEX_PROJECT_ID")]
               [] OTHER -> p
    IN  IF TruthyText(q.model) THEN q ELSE [q EXCEPT !.model = DefaultModel(e)]

\* the arguments of AuthProvider(...)
AuthArgs ==
    [auth_type : AuthTypes, api_key : TextArgs, region : TextArgs,
     project_id : {None, Some("given")}, model : {None, Some("given")}]

\* AuthProvider(...): the fields are stored, then _validate runs
AuthProviderNew ==
    /\ newResult.call = "none"
    /\ \E a \in AuthArgs :
          IF ValidateMsg(a) # ""
          THEN /\ newResult' = Outcome("AuthProvider", a,
                                       "AuthenticationError", ValidateMsg(a))
               /\ UNCHANGED auth_provider
          ELSE /\ newResult' = Outcome("AuthProvider", a, "ok", "")
               /\ auth_provider' = Some(a)
    /\ UNCHANGED <<argVars, jsonVars, convVars, procVars, pc, childStdin,
                   nread, nreadErr, yielded, timer, store, stderrRead, result,
                   cause, storeText, merged_env, client, conversation,
                   output_format, cmd, nconv, inv, actor, errPipe>>

\* no tool name is ever found in both lists
OverlapIgnored(al, dl) == {}

\* the tool names that are in both lists
Overlap(al, dl) ==
    IF TruthyList(al) /\ TruthyList(dl)
    THEN {al[1][i] : i \in 1..Len(al[1])} \cap {dl[1][i] : i \in 1..Len(dl[1])}
    ELSE {}

\* the arguments of ClaudeCode(...)
ClientArgs ==
    [auth_type : AuthTypes, api_key : {None, Some("given")},
     region : {None, Some("given")}, project_id : {None, Some("given")},
     model : {None}, allowed_tools : ToolLists,
     disallowed_tools : {None, Some(<<"Bash">>)},
     max_turns : {None, Some(2)}, mcp_config : {None, Some("given")},
     timeout : {Some(2)}]

\* the AuthProvider arguments among those of ClaudeCode(...)
AuthPart(a) ==
    [auth_type |-> a.auth_type, api_key |-> a.api_key, region |-> a.region,
     project_id |-> a.project_id, model |-> a.model]

\* ClaudeCode(...): AuthProvider(...), update_from_environment, the
\* configuration, the check for conflicting tools
ClientNew ==
    /\ newResult.call = "none"
    /\ \E a \in ClientArgs :
          IF ValidateMsg(AuthPart(a)) # ""
          THEN /\ newResult' = Outcome("ClaudeCode", a, "AuthenticationError",
                                       ValidateMsg(AuthPart(a)))
               /\ UNCHANGED client
          ELSE IF Overlap(a.allowed_tools, a.disallowed_tools) # {}
          THEN /\ newResult' = Outcome("ClaudeCode", a, "ValidationError",
                          "Tools cannot be both allowed and disallowed")
               /\ UNCHANGED client
          ELSE /\ newResult' = Outcome("ClaudeCode", a, "ok", "")
               /\ client' = Some(
                      [auth_provider |->
                           UpdateFromEnvironment(AuthPart(a), environ),
                       allowed_tools |-> a.allowed_tools,
                       disallowed_tools |-> a.disallowed_tools,
                       max_turns |-> a.max_turns,
                       mcp_config |-> a.mcp_config,
                       timeout |-> a.timeout])
    /\ UNCHANGED <<argVars, jsonVars, convVars, procVars, pc, childStdin,
                   nread, nreadErr, yielded, timer, store, stderrRead, result,
                   cause, storeText, merged_env, auth_provider, conversation,
                   output_format, cmd, nconv, inv, actor, errPipe>>

\* the arguments of start_conversation
ConversationArgs ==
    [allowed_tools : ToolLists, disallowed_tools : {None, Some(<<"Edit">>)},
     max_turns : {None, Some(0), Some(1)},
     mcp_config : {None, Some("own")}, model : {None, Some("own")},
     timeout : {None, Some(0), Some(1)}, output_format : {"text"}]

\* Python's "x or y" on Optional[List[str]], Optional[int], Optional[str]
OrList(x, y) == IF TruthyList(x) THEN x ELSE y

OrInt(x, y) == IF TruthyInt(x) THEN x ELSE y

OrText(x, y) == IF TruthyText(x) THEN x ELSE y

\* the arguments start_conversation gives to Conversation(...)
Combined(a, c) ==
    [allowed_tools |-> OrList(a.allowed_tools, c.allowed_tools),
     disallowed_tools |-> OrList(a.disallowed_tools, c.disallowed_tools),
     max_turns |-> OrInt(a.max_turns, c.max_turns),
     mcp_config |-> OrText(a.mcp_config, c.mcp_config),
     model |-> OrText(a.model, c.auth_provider.model),
     timeout |-> OrInt(a.timeout, c.timeout),
     output_format |-> a.output_format]

\* client.start_conversation(...): Conversation.__init__ stores the
\* settings and checks for conflicting tools
StartConversation ==
    /\ client # None
    /\ newResult.call = "ClaudeCode"
    /\ \E a \in ConversationArgs :
          LET f == Combined(a, client[1]) IN
          IF Overlap(f.allowed_tools, f.disallowed_tools) # {}
          THEN /\ newResult' = Outcome("start_conversation", a,
                          "ValidationError",
                          "Tools cannot be both allowed and disallowed")
               /\ UNCHANGED conversation
          ELSE /\ newResult' = Outcome("start_conversation", a, "ok", "")
               /\ conversation' = Some(f)
    /\ UNCHANGED <<argVars, jsonVars, convVars, procVars, pc, childStdin,
                   nread, nreadErr, yielded, timer, store, stderrRead, result,
                   cause, storeText, merged_env, auth_provider, client,
                   output_format, cmd, nconv, inv, actor, errPipe>>

\* a process that constructs an AuthProvider, or a ClaudeCode client and
\* then a Conversation through start_conversation
ClientInit ==
    /\ mode = "run"
    /\ timeout = None
    /\ input_data = None
    /\ parentStdin = "eof"
    /\ environ \in ClientEnvirons
    /\ env = None
    /\ max_turns = None
    /\ conversation = None
    /\ output_format = "text"
    /\ Start
    /\ errPipe = [cap |-> MaxErr, blocked |-> FALSE]

ClientNext ==
    \/ AuthProviderNew
    \/ ClientNew
    \/ StartConversation

ClientSpec == ClientInit /\ [][ClientNext]_vars

----------------------------------------------------------------------------
(* stream_command with its threads scheduled fairly *)

\* one call of stream_command
LiveInit ==
    /\ mode = "stream"
    /\ timeout \in Timeouts
    /\ input_data \in {None, Some(<<"p">>)}
    /\ parentStdin = "eof"
    /\ environ \in {e \in Environs : "ANTHROPIC_MODEL" \in DOMAIN e}
    /\ env = None
    /\ max_turns = None
    /\ conversation = None
    /\ output_format = "text"
    /\ Start
    /\ errPipe = [cap |-> MaxErr, blocked |-> FALSE]

LiveNext ==
    \/ ProcReadStdin
    \/ ProcStdinEOF
    \/ ProcWrite
    \/ ProcWriteErr
    \/ ProcCloseStdout
    \/ ProcExit
    \/ StreamStart
    \/ StreamSpawnFail
    \/ Pull
    \/ StreamYield
    \/ StreamDecodeError
    \/ StreamEOF
    \/ StreamFinish
    \/ Abandon
    \/ TimerFire

\* the timer thread runs when its delay is over, and the thread inside next()
\* goes on whenever its read or wait can return; the subprocess and the
\* consumer are under no obligation
LiveSpec ==
    /\ LiveInit
    /\ [][LiveNext]_vars
    /\ WF_vars(TimerFire)
    /\ WF_vars(StreamYield)
    /\ WF_vars(StreamDecodeError)
    /\ WF_vars(StreamEOF)
    /\ WF_vars(StreamFinish)

----------------------------------------------------------------------------
(* run_command and stream_command under every environment and overlay *)

EnvInit ==
    /\ mode \in {"run", "stream"}
    /\ timeout \in {None, Some(1)}
    /\ input_data = None
    /\ parentStdin = "eof"
    /\ environ \in Environs
    /\ env \in Overlays
    /\ max_turns = None
    /\ conversation = None
    /\ output_format = "text"
    /\ Start
    /\ errPipe = [cap |-> MaxErr, blocked |-> FALSE]

EnvSpec == EnvInit /\ [][Next]_vars

----------------
(* Properties *)

Spawned == procState # "none"

\* every byte the subprocess wrote to stdout decodes
OutIsText == \A i \in 1..Len(written) : IsText(written[i])

\* bytes that only ever appear on stderr
ErrOnly == ErrBytes \ OutBytes

\* C1: in stream_command, once the consumer has closed or dropped the
\* generator in the middle of the iteration, the subprocess is killed and
\* reaped.
C1_AbandonedProcessReaped ==
    (mode = "stream" /\ pc = "closed" /\ Spawned) => procState = "reaped"

\* C2: in stream_command, when the timer has killed the subprocess because it
\* was still running at the deadline, the iteration ends with a TimeoutError.
C2_TimeoutRaisesTimeoutError ==
    (mode = "stream" /\ timer = "killed" /\ pc \in {"done", "raised"})
        => result.kind = "TimeoutError"

\* C3: when an invocation exceeded its timeout, in run_command and in
\* stream_command, the subprocess is exited and reaped by the time the error
\* has reached the caller.
C3_TimedOutProcessReaped ==
    /\ (mode = "run" /\ result.kind = "TimeoutError") => procState = "reaped"
    /\ (mode = "stream" /\ timer = "killed" /\ pc = "raised")
           => procState = "reaped"

C3_Witness ==
    /\ mode = "stream"
    /\ timer = "killed"
    /\ pc = "raised"
    /\ exitCode = Some(0 - SIGKILL)
    /\ procState = "reaped"

C6_YieldedIsPrefix ==
    mode = "stream" =>
        /\ IsPrefix(yielded, sent)
        /\ \A i \in 1..Len(yielded) : \A j \in 1..Len(yielded[i]) :
               yielded[i][j] \notin ErrOnly
        /\ stderrRead =>
               /\ nread = Len(written)
               /\ ~stdoutOpen
               /\ procState = "reaped"

C6_Witness ==
    /\ mode = "stream"
    /\ stderrRead
    /\ Len(yielded) = MaxLines
    /\ yielded[1] # yielded[2]
    /\ errWritten # <<>>

\* C7: run_command never raises because of the exit code: when the
\* subprocess has exited within the timeout, with code zero or not, the
\* call returns the exit code, the whole of stdout and the whole of stderr.
C7_RunReturnsTriple ==
    mode = "run" =>
        /\ pc = "returned" =>
               /\ result.kind = "return"
               /\ result.exit_code = exitCode
               /\ result.stdout = Some(Decode(Flatten(written)))
               /\ result.stderr = Some(Decode(errWritten))
        /\ (pc = "raised" /\ Spawned) => result.kind = "TimeoutError"

C7_Witness ==
    /\ mode = "run"
    /\ pc = "returned"
    /\ exitCode = Some(1)
    /\ written # <<>>
    /\ errWritten # <<>>

\* C8: when run_command's subprocess has not exited within the timeout, the
\* call fails with a TimeoutError whose exit_code is None and whose stdout
\* and stderr are the output captured up to the timeout, empty text when
\* nothing was captured.
C8_RunTimeoutCarriesPartial ==
    (mode = "run" /\ pc = "raised" /\ Spawned) =>
        /\ result.kind = "TimeoutError"
        /\ result.exit_code = None
        /\ result.stdout = Some(Decode(Flatten(SubSeq(written, 1, nread))))
        /\ result.stderr = Some(Decode(SubSeq(errWritten, 1, nreadErr)))
        /\ nread = 0 => result.stdout = Some(<<>>)
        /\ nreadErr = 0 => result.stderr = Some(<<>>)

C8_Witness ==
    /\ mode = "run"
    /\ result.kind = "TimeoutError"
    /\ exitCode = Some(0 - SIGKILL)
    /\ nread > 0
    /\ nread < Len(written)
    /\ nreadErr = 0
    /\ errWritten # <<>>
    /\ ~OutIsText

\* C9: when run_command's subprocess cannot be launched, the call fails
\* with an ExecutionError and with no other kind of error.
C9_LaunchFailureIsExecutionError ==
    (mode = "run" /\ pc = "raised" /\ ~Spawned)
        => result.kind = "ExecutionError"

\* C10: when no input text is supplied, a subprocess that reads its standard
\* input to end-of-file finds it closed or empty and does not block.
C10_NoInputStdinAtEOF ==
    (~TruthyStr(input_data) /\ procState = "running"
        /\ stdinPhase = "reading") => StdinAtEOF

----------------------------------------------------------------------------
(* Properties of stream_json_command *)

\* a blank or whitespace-only line
BlankLine(l) == \A i \in 1..Len(l) : l[i] \in {" ", NL}

\* a non-blank line that is not valid JSON
Malformed(l) == ~BlankLine(l) /\ ~JsonValid(l)

\* the lines stream_json_command has taken from stream_command and handled
Processed == SubSeq(yielded, 1, nproc)

\* one decoded value per non-blank line, in line order
RECURSIVE Expected(_)
Expected(ls) ==
    IF ls = <<>> THEN <<>>
    ELSE IF BlankLine(ls[1]) THEN Expected(Tail(ls))
    ELSE <<JsonLoads(ls[1])>> \o Expected(Tail(ls))

\* C11: as long as no line handled so far is malformed, stream_json_command
\* has raised no decode error and has yielded exactly one decoded value per
\* non-blank line, in line order; when the sequence ends normally this covers
\* every line the subprocess wrote.
C11_OneRecordPerNonBlankLine ==
    (mode = "json" /\ \A i \in 1..nproc : ~Malformed(yielded[i]))
        => /\ jresult.kind # "ValueError"
           /\ records = Expected(Processed)
           /\ jpc = "done" => /\ Processed = sent
                              /\ records = Expected(sent)

C11_Witness ==
    /\ mode = "json"
    /\ jpc = "done"
    /\ Len(sent) = MaxLines
    /\ BlankLine(sent[1])
    /\ sent[1] # <<>>
    /\ records = <<1>>

\* C12: when stream_json_command has raised ValueError, the line it handled
\* last is the first malformed one, the records yielded are those of all
\* earlier lines, and stream_command has handed out no line after it; a
\* malformed line is never handled without the ValueError.
C12_FirstMalformedLineEnds ==
    /\ (mode = "json" /\ jresult.kind = "ValueError")
          => /\ jpc = "raised"
             /\ nproc >= 1
             /\ Malformed(yielded[nproc])
             /\ \A i \in 1..(nproc - 1) : ~Malformed(yielded[i])
             /\ records = Expected(SubSeq(yielded, 1, nproc - 1))
             /\ Len(yielded) = nproc
             /\ pc \in {"suspended", "closed"}
    /\ (mode = "json" /\ \E i \in 1..nproc : Malformed(yielded[i]))
          => jresult.kind = "ValueError"

C12_Witness ==
    /\ mode = "json"
    /\ jresult.kind = "ValueError"
    /\ nproc = MaxLines
    /\ records = <<1>>
    /\ Len(sent) = MaxLines

\* C13: an error raised by stream_command leaves stream_json_command as the
\* same error, with the same kind, exit code and stderr, and is an
\* ExecutionError or a TimeoutError.
C13_StreamErrorsUnchanged ==
    (mode = "json" /\ pc = "raised" /\ jpc # "running")
        => /\ jpc = "raised"
           /\ jresult = result
           /\ jresult.kind \in {"ExecutionError", "TimeoutError"}

C13_Witness ==
    /\ mode = "json"
    /\ pc = "raised"
    /\ jpc = "raised"
    /\ jresult.exit_code = Some(1)
    /\ jresult.stderr = Some(<<"e">>)
    /\ records # <<>>

\* C15: when stream_json_command has raised ValueError on a malformed line,
\* the subprocess of the invocation is exited and reaped.
C15_DecodeErrorProcessReaped ==
    (mode = "json" /\ jresult.kind = "ValueError" /\ Spawned)
        => procState = "reaped"

----------------------------------------------------------------------------
(* Properties of stream_command's error handling, store and timer *)

\* C14: when stream_command has raised, a TimeoutError or ExecutionError
\* raised inside it has reached the consumer unchanged, any other failure
\* has reached it as an ExecutionError with the message "Error running
\* command", and a subprocess that was spawned is exited and reaped.
C14_StreamErrorPassThroughOrWrap ==
    (mode = "stream" /\ pc = "raised")
        => /\ cause.kind \in {"TimeoutError", "ExecutionError"}
                 => result = cause
           /\ cause.kind \notin {"TimeoutError", "ExecutionError"}
                 => /\ result.kind = "ExecutionError"
                    /\ result.msg = "Error running command"
           /\ Spawned => procState = "reaped"

C14_Witness ==
    /\ mode = "stream"
    /\ pc = "raised"
    /\ cause.kind = "UnicodeDecodeError"
    /\ timer = "none"
    /\ exitCode = Some(0 - SIGKILL)
    /\ procState = "reaped"
    /\ yielded # <<>>

\* C16: with input text, the subprocess is spawned with the store as its
\* standard input, the store then holding the whole text, and never with a
\* pipe; after normal exhaustion, a raised error or abandonment the store
\* is not open.
C16_InputStoreWrittenAttachedClosed ==
    (mode = "stream" /\ TruthyStr(input_data))
        => /\ Spawned => /\ childStdin = "store"
                         /\ storeText = Some(input_data[1])
           /\ childStdin # "pipe"
           /\ pc \in {"done", "raised", "closed"} => store # "open"
           /\ (pc \in {"done", "raised", "closed"} /\ storeText # None)
                 => store = "closed"

C16_Witness ==
    /\ mode = "stream"
    /\ input_data = Some(<<"p">>)
    /\ pc = "closed"
    /\ store = "closed"
    /\ storeText = Some(<<"p">>)
    /\ procState = "running"
    /\ yielded # <<>>

\* C17: without a timeout stream_command has no timer; with one, once the
\* output has ended and the exit has been observed (the sequence is done, or
\* has raised for a non-zero exit code), the timer is not pending any more,
\* so it cannot kill afterwards.
C17_TimerOnlyWithTimeoutAndCancelled ==
    mode = "stream"
        => /\ ~TruthyInt(timeout) => timer = "none"
           /\ (pc = "done" \/ (pc = "raised" /\ stderrRead))
                 => timer # "pending"

C17_Witness ==
    /\ mode = "stream"
    /\ TruthyInt(timeout)
    /\ pc = "raised"
    /\ stderrRead
    /\ exitCode = Some(1)
    /\ timer = "cancelled"

\* the consumer's next() is inside stream_command, at the read or the wait
PullPending == mode = "stream" /\ pc \in {"reading", "waiting"}

\* C18: with a timeout configured, a pending pull on stream_command's
\* sequence eventually returns a line, the end of the sequence or an error,
\* whatever the subprocess does.
C18_PullReturnsUnderTimeout ==
    (TruthyInt(timeout) /\ PullPending)
        ~> (pc \in {"suspended", "done", "raised"})

C18_Witness ==
    /\ mode = "stream"
    /\ TruthyInt(timeout)
    /\ timer = "killed"
    /\ pc = "raised"
    /\ written = <<>>
    /\ errWritten = <<>>
    /\ procState = "reaped"

----------------------------------------------------------------------------
(* Properties of the environment *)

\* the keys and values of the env argument, none for None
OverlayOf(e) == IF e = None THEN <<>> ELSE e[1]

\* C19: a call of run_command or stream_command that gets as far as the
\* launch builds the subprocess's environment as the inherited environment
\* with the overlay on top, the overlay's value on every key of both, and no
\* step of the call changes the inherited environment or the overlay.
C19_MergedEnvOverlayWins ==
    [][/\ environ' = environ
       /\ env' = env
       /\ (pc = "init" /\ pc' # "init" /\ pc' # "closed")
             => /\ merged_env' # None
                /\ DOMAIN merged_env'[1]
                       = DOMAIN environ \cup DOMAIN OverlayOf(env)
                /\ \A k \in DOMAIN merged_env'[1] :
                       merged_env'[1][k] =
                           IF k \in DOMAIN OverlayOf(env)
                           THEN OverlayOf(env)[k] ELSE environ[k]
       /\ pc # "init" => merged_env' = merged_env]_vars

C19_Witness ==
    /\ pc \in {"returned", "done"}
    /\ env # None
    /\ "ANTHROPIC_MODEL" \in DOMAIN environ
    /\ "ANTHROPIC_MODEL" \in DOMAIN OverlayOf(env)
    /\ environ["ANTHROPIC_MODEL"] = "inherited"
    /\ merged_env # None
    /\ merged_env[1]["ANTHROPIC_MODEL"] = "overlay"
    /\ merged_env[1]["HOME"] = "inherited"
    /\ merged_env[1]["ANTHROPIC_API_KEY"] = "overlay"

----------------------------------------------------------------------------
(* Properties of Conversation.send *)

\* run_command has returned to send with this exit code
SendSawExit(c) ==
    /\ mode = "send"
    /\ cpc = "sending"
    /\ pc = "returned"
    /\ exitCode = Some(c)

\* C20: a send whose subprocess exits 0 returns the subprocess's standard
\* output and adds exactly one to turn_count; a send whose subprocess exits
\* non-zero raises an ExecutionError with that exit code, the stdout and the
\* stderr; and no step in which send raises, nor any other step, changes
\* turn_count.
C20_SendCountsSuccessfulTurns ==
    [][/\ (SendSawExit(0) /\ cpc' # cpc)
             => /\ cpc' = "returned"
                /\ convResult'.kind = "return"
                /\ convResult'.stdout = Some(Decode(Flatten(written)))
                /\ turn_count' = turn_count + 1
       /\ \A c \in ExitCodes \ {0} :
              (SendSawExit(c) /\ cpc' # cpc)
                  => /\ cpc' = "raised"
                     /\ convResult'.kind = "ExecutionError"
                     /\ convResult'.exit_code = Some(c)
                     /\ convResult'.stdout = Some(Decode(Flatten(written)))
                     /\ convResult'.stderr = Some(Decode(errWritten))
       /\ cpc' = "raised" => turn_count' = turn_count
       /\ turn_count' # turn_count
             => /\ SendSawExit(0)
                /\ cpc' = "returned"]_vars

C20_Witness ==
    /\ mode = "send"
    /\ cpc = "raised"
    /\ pc = "returned"
    /\ convResult.kind = "ExecutionError"
    /\ convResult.exit_code = Some(1)
    /\ convResult.stdout # Some(<<>>)
    /\ convResult.stderr # Some(<<>>)
    /\ turn_count = 1

----------------------------------------------------------------------------
(* Properties of text decoding *)

\* C29: in run_command and in stream_command, output bytes that are not
\* valid UTF-8 never end the invocation with a decoding failure: no call
\* has raised because of a UnicodeDecodeError.
C29_InvalidBytesNeverFail ==
    (mode \in {"run", "stream"} /\ pc = "raised")
        => cause.kind # "UnicodeDecodeError"

----------------------------------------------------------------------------
(* Properties of the constructors *)

\* the tool names that a pair of Optional lists have in common
InBoth(al, dl) ==
    IF al = None \/ dl = None THEN {}
    ELSE {t \in {"Bash", "Edit"} :
              /\ \E i \in 1..Len(al[1]) : al[1][i] = t
              /\ \E i \in 1..Len(dl[1]) : dl[1][i] = t}

\* a credential the auth type requires is None or empty
RequiredMissing(a) ==
    \/ a.auth_type = "ANTHROPIC_API" /\ a.api_key \in {None, Some("")}
    \/ a.auth_type = "AWS_BEDROCK" /\ a.region \in {None, Some("")}
    \/ a.auth_type = "GOOGLE_VERTEX"
          /\ (a.region \in {None, Some("")}
                 \/ a.project_id \in {None, Some("")})

\* C25: no ClaudeCode client and no Conversation exists with a tool name in
\* both of its lists; ClaudeCode(...) with such lists (and valid
\* credentials) and start_conversation whose lists, taken from its arguments
\* or else from the client, have a common name both end with
\* ValidationError and construct nothing.
C25_NoConflictingToolsConstructed ==
    /\ client # None
          => InBoth(client[1].allowed_tools, client[1].disallowed_tools) = {}
    /\ conversation # None
          => InBoth(conversation[1].allowed_tools,
                    conversation[1].disallowed_tools) = {}
    /\ (newResult.call = "ClaudeCode"
           /\ InBoth(newResult.args.allowed_tools,
                     newResult.args.disallowed_tools) # {})
          => /\ client = None
             /\ newResult.kind \in {"ValidationError", "AuthenticationError"}
             /\ ~RequiredMissing(newResult.args)
                   => newResult.kind = "ValidationError"
    /\ newResult.call = "start_conversation"
          => LET f == Combined(newResult.args, client[1])
             IN  IF InBoth(f.allowed_tools, f.disallowed_tools) # {}
                 THEN /\ newResult.kind = "ValidationError"
                      /\ conversation = None
                 ELSE /\ newResult.kind = "ok"
                      /\ conversation # None

C25_Witness ==
    /\ newResult.call = "start_conversation"
    /\ newResult.kind = "ValidationError"
    /\ newResult.args.allowed_tools = None
    /\ newResult.args.disallowed_tools = Some(<<"Edit">>)
    /\ client[1].allowed_tools = Some(<<"Edit">>)
    /\ conversation = None

\* a setting of the new Conversation: the value passed, the client's when
\* none was passed
Override(passed, configured) == IF passed # None THEN passed ELSE configured

\* C26: after a successful start_conversation each of the six settings of
\* the new Conversation is the value passed, and the client's value only
\* when none was passed.
C26_PassedSettingsOverride ==
    (newResult.call = "start_conversation" /\ newResult.kind = "ok")
        => LET a == newResult.args
               c == client[1]
               v == conversation[1]
           IN  /\ v.allowed_tools = Override(a.allowed_tools, c.allowed_tools)
               /\ v.disallowed_tools
                      = Override(a.disallowed_tools, c.disallowed_tools)
               /\ v.max_turns = Override(a.max_turns, c.max_turns)
               /\ v.mcp_config = Override(a.mcp_config, c.mcp_config)
               /\ v.model = Override(a.model, c.auth_provider.model)
               /\ v.timeout = Override(a.timeout, c.timeout)

\* the environment holds the variable of every required credential that
\* was not given
EnvSupplies(a, e) ==
    /\ a.auth_type = "ANTHROPIC_API"
          => (a.api_key # None \/ "ANTHROPIC_API_KEY" \in DOMAIN e)
    /\ a.auth_type = "AWS_BEDROCK"
          => (a.region # None \/ "AWS_REGION" \in DOMAIN e)
    /\ a.auth_type = "GOOGLE_VERTEX"
          => /\ (a.region # None \/ "CLOUD_ML_REGION" \in DOMAIN e)
             /\ (a.project_id # None
                    \/ "ANTHROPIC_VERTEX_PROJECT_ID" \in DOMAIN e)

\* C27: ClaudeCode(...) without an explicit credential does not fail with
\* an AuthenticationError when the environment variable of that credential
\* is set.
C27_CredentialFromEnvironment ==
    (newResult.call = "ClaudeCode" /\ RequiredMissing(newResult.args)
        /\ EnvSupplies(newResult.args, environ))
        => newResult.kind # "AuthenticationError"

\* C28: AuthProvider(...) raises AuthenticationError exactly when a
\* credential its auth type requires is missing, and then no object exists;
\* otherwise the object exists with the fields it was given.
C28_AuthProviderRequiresCredentials ==
    newResult.call = "AuthProvider"
        => IF RequiredMissing(newResult.args)
           THEN /\ newResult.kind = "AuthenticationError"
                /\ auth_provider = None
           ELSE /\ newResult.kind = "ok"
                /\ auth_provider = Some(newResult.args)

C28_Witness ==
    /\ newResult.call = "AuthProvider"
    /\ newResult.kind = "AuthenticationError"
    /\ newResult.args.auth_type = "GOOGLE_VERTEX"
    /\ newResult.args.region = Some("given")
    /\ newResult.args.project_id = None

----------------------------------------------------------------------------
(* Properties of a Conversation's turns *)

\* a step in which send, stream or stream_json is called (for the two
\* generators: called and started by the first next())
CallStep ==
    /\ cpc \notin {"sending", "running", "suspended"}
    /\ (cpc' # cpc \/ convResult' # convResult)

\* a call step that gets past the validations
CallStarts == CallStep /\ cpc' \in {"sending", "running"}

\* a call step that ends in the validations
CallRejected == CallStep /\ cpc' = "raised"

\* C21: Conversation.stream and stream_json add one to turn_count in the
\* step that ends the sequence normally, after every chunk has been passed
\* on, and in no other step: not when the stream raises, not when the
\* consumer closes it.
C21_StreamCountsCompletedTurns ==
    [][(mode \in ConvStreamModes
           => /\ (cpc = "running" /\ cpc' = "done")
                    => /\ turn_count' = turn_count + 1
                       /\ InnerPc = "done"
                       /\ nconv = Len(Chunks)
                       /\ exitCode = Some(0)
                       /\ Len(yielded) = Len(sent)
              /\ turn_count' # turn_count
                    => (cpc = "running" /\ cpc' = "done")
              /\ (cpc' \in {"raised", "closed"} /\ cpc' # cpc)
                    => turn_count' = turn_count)]_vars

C21_Witness ==
    /\ mode = "cjson"
    /\ cpc = "raised"
    /\ convResult.kind = "ValueError"
    /\ turn_count = 1
    /\ nconv = 1

\* C22: a call of send, stream or stream_json made when max_turns is set
\* and turn_count has reached it ends with ValidationError, spawns no
\* subprocess and leaves turn_count as it is; turn_count never exceeds
\* max_turns.
C22_MaxTurnsRejectsCall ==
    [][(/\ (CallStep /\ TruthyInt(max_turns) /\ turn_count >= max_turns[1])
              => /\ cpc' = "raised"
                 /\ convResult'.kind = "ValidationError"
                 /\ turn_count' = turn_count
                 /\ procState' = procState
                 /\ pc' = pc
        /\ TruthyInt(max_turns) => turn_count' <= max_turns[1])]_vars

C22_Witness ==
    /\ mode = "cstream"
    /\ cpc = "raised"
    /\ convResult.kind = "ValidationError"
    /\ convResult.msg = "Conversation has reached the maximum number of turns"
    /\ max_turns = Some(1)
    /\ turn_count = 1

\* the command holds the flag
HasFlag(c, f) == \E i \in 1..Len(c) : c[i] = f

\* C23: the command built for an invocation of send, stream or stream_json
\* holds -c if and only if turn_count is greater than 0 when it is built.
C23_ContinueFlagAfterFirstTurn ==
    [][(CallStarts
           => /\ cmd' # None
              /\ HasFlag(cmd'[1], "-c") <=> turn_count > 0)]_vars

C23_Witness ==
    /\ mode = "send"
    /\ cpc = "sending"
    /\ turn_count = 1
    /\ cmd # None
    /\ HasFlag(cmd[1], "-c")

\* C24: every call of send, stream or stream_json that gets past the
\* validations has a prompt that is not empty or whitespace-only and, for
\* stream_json, the output format STREAM_JSON; a call that does not get
\* past them ends with ValidationError, spawns no subprocess and leaves
\* turn_count as it is.
C24_PromptAndFormatValidated ==
    [][(/\ CallStarts
              => /\ input_data' # None
                 /\ ~BlankLine(input_data'[1])
                 /\ mode = "cjson" => output_format = "stream-json"
        /\ CallRejected
              => /\ convResult'.kind = "ValidationError"
                 /\ turn_count' = turn_count
                 /\ procState' = procState
                 /\ pc' = pc)]_vars

C24_Witness ==
    /\ mode = "cjson"
    /\ output_format = "stream-json"
    /\ cpc = "raised"
    /\ convResult.kind = "ValidationError"
    /\ convResult.msg = "Prompt cannot be empty"
    /\ turn_count = 1
    /\ procState = "reaped"

----------------------------------------------------------------------------
(* Two concurrent invocations of stream_command *)

\* lines the subprocess of each of the two invocations writes at most
MaxPairLines == 1

\* the two invocations run different commands: the line the subprocess of
\* invocation i writes
PairLine(i) == IF i = 1 THEN <<"a", NL>> ELSE <<"1", NL>>

\* every variable but the two invocations and the caller's standard input
soloVars == <<mode, timeout, input_data, environ, env, max_turns, jsonVars,
              convVars, procVars, pc, childStdin, nread,
              nreadErr, yielded, timer, store, stderrRead, result, cause,
              storeText, merged_env, auth_provider, client, conversation,
              newResult, output_format, cmd, nconv, errPipe>>

\* kill_process closes over the local "process" of the invocation that
\* defined it: the invocation whose subprocess timer i kills
TimerTarget(i) == i

\* invocation i changes its own locals
Acts(i, v) ==
    /\ inv' = [inv EXCEPT ![i] = v]
    /\ actor' = i
    /\ UNCHANGED <<soloVars, parentStdin>>

\* invocation i is called and its first next() runs: write the input to
\* a temporary file of its own, spawn its subprocess, start its timer
PairStart(i) ==
    /\ inv[i].pc = "init"
    /\ \E t \in {None, Some(1)}, d \in {None, Some(<<"p">>)} :
          Acts(i, [inv[i] EXCEPT
                      !.timeout = t,
                      !.input_data = d,
                      !.store = IF TruthyStr(d) THEN "open" ELSE "none",
                      !.childStdin = StreamStdin(d),
                      !.procState = "running",
                      !.stdoutOpen = TRUE,
                      !.timer = TimerStart(t),
                      !.pc = "reading"])

\* what a subprocess reading a line from standard input gets: its
\* invocation's temporary file, the line waiting on the caller's standard
\* input, or end-of-file
StdinLine(cs, ps) ==
    IF cs = "store" THEN "store"
    ELSE IF ps = "live" THEN "parent" ELSE "eof"

\* the subprocess of invocation i reads a line from its standard input;
\* a line read from the caller's standard input is gone from it
PairProcReadStdin(i) ==
    /\ inv[i].procState = "running"
    /\ inv[i].stdinRead = None
    /\ inv[i].written = <<>>
    /\ LET got == StdinLine(inv[i].childStdin, parentStdin) IN
          /\ inv' = [inv EXCEPT ![i].stdinRead = Some(got)]
          /\ parentStdin' = IF got = "parent" THEN "drained" ELSE parentStdin
    /\ actor' = i
    /\ UNCHANGED soloVars

\* the subprocess of invocation i writes a line
PairProcWrite(i) ==
    /\ inv[i].procState = "running"
    /\ inv[i].stdoutOpen
    /\ Len(inv[i].written) < MaxPairLines
    /\ Acts(i, [inv[i] EXCEPT !.written = Append(@, PairLine(i))])

\* the subprocess of invocation i exits
PairProcExit(i) ==
    /\ inv[i].procState = "running"
    /\ \E c \in ExitCodes :
          Acts(i, [inv[i] EXCEPT !.procState = "zombie",
                                 !.exitCode = Some(c),
                                 !.stdoutOpen = FALSE])

\* a later next() of invocation i
PairPull(i) ==
    /\ inv[i].pc = "suspended"
    /\ Acts(i, [inv[i] EXCEPT !.pc = "reading"])

\* for line in process.stdout: yield line.rstrip("\n")
PairYield(i) ==
    /\ inv[i].pc = "reading"
    /\ inv[i].nread < Len(inv[i].written)
    /\ Acts(i, [inv[i] EXCEPT
                   !.yielded =
                       Append(@, Rstrip(NextLine(inv[i].written,
                                                 inv[i].nread))),
                   !.nread = @ + 1,
                   !.pc = "suspended"])

\* end of the output of invocation i: process.wait(), cancel the timer,
\* raise on a non-zero exit code, close the temporary file
PairFinish(i) ==
    /\ inv[i].pc = "reading"
    /\ inv[i].nread = Len(inv[i].written)
    /\ ~inv[i].stdoutOpen
    /\ inv[i].procState \in {"zombie", "reaped"}
    /\ Acts(i, [inv[i] EXCEPT
                   !.procState = Wait(@),
                   !.timer = TimerCancel(inv[i].timeout, @),
                   !.store = StoreClosed(@),
                   !.result =
                       IF inv[i].exitCode[1] # 0
                       THEN StreamHandler(ExitError(inv[i].exitCode[1],
                                                    <<>>))
                       ELSE Exc("StopIteration"),
                   !.pc = IF inv[i].exitCode[1] # 0
                          THEN "raised" ELSE "done"])

\* the generator of invocation i is closed or dropped
PairAbandon(i) ==
    /\ inv[i].pc \in {"init", "suspended"}
    /\ Acts(i, [inv[i] EXCEPT !.pc = "closed", !.store = StoreClosed(@)])

\* the subprocess after kill_process ran on it
Killed(p) ==
    IF Poll(p.procState) = "running"
    THEN [p EXCEPT !.procState = KilledState(@),
                   !.exitCode = KilledCode(p.procState, @),
                   !.stdoutOpen = FALSE]
    ELSE [p EXCEPT !.procState = Poll(@)]

\* the timer thread of invocation i runs kill_process
PairTimerFire(i) ==
    /\ inv[i].timer = "pending"
    /\ LET t == TimerTarget(i)
           hit == [inv EXCEPT ![t] = Killed(inv[t])]
       IN  inv' = [hit EXCEPT
                      ![i].timer =
                          IF Poll(inv[t].procState) = "running"
                          THEN "killed" ELSE "expired"]
    /\ actor' = i
    /\ UNCHANGED <<soloVars, parentStdin>>

\* two calls of stream_command, each with its own timeout and input, from
\* a caller whose standard input is at end-of-file or has a line waiting
PairInit ==
    /\ mode = "pair"
    /\ timeout = None
    /\ input_data = None
    /\ parentStdin \in {"eof", "live"}
    /\ environ \in {e \in Environs : "ANTHROPIC_MODEL" \in DOMAIN e}
    /\ env = None
    /\ max_turns = None
    /\ conversation = None
    /\ output_format = "text"
    /\ Start
    /\ errPipe = [cap |-> MaxErr, blocked |-> FALSE]

PairNext ==
    \E i \in InvIds :
       \/ PairStart(i)
       \/ PairProcReadStdin(i)
       \/ PairProcWrite(i)
       \/ PairProcExit(i)
       \/ PairPull(i)
       \/ PairYield(i)
       \/ PairFinish(i)
       \/ PairAbandon(i)
       \/ PairTimerFire(i)

PairSpec == PairInit /\ [][PairNext]_vars

----------------------------------------------------------------------------
(* Properties of concurrent invocations *)

\* the lines written by the subprocess, as the generator yields them
OwnLines(v) == [k \in 1..Len(v.written) |-> Rstrip(v.written[k])]

\* the lines and the outcome of an invocation follow from its own
\* arguments and its own subprocess
OwnOutcome(v) ==
    /\ IsPrefix(v.yielded, OwnLines(v))
    /\ v.pc = "done"
          => /\ v.exitCode = Some(0)
             /\ v.yielded = OwnLines(v)
             /\ v.result = Exc("StopIteration")
    /\ v.pc = "raised"
          => /\ v.exitCode \notin {None, Some(0)}
             /\ v.yielded = OwnLines(v)
             /\ v.result = StreamHandler(ExitError(v.exitCode[1], <<>>))
    /\ v.exitCode = Some(0 - SIGKILL) <=> v.timer = "killed"
    /\ v.timer # "none" => TruthyInt(v.timeout)
    /\ v.store # "none" => TruthyStr(v.input_data)
    /\ v.pc \in {"done", "raised", "closed"} => v.store # "open"

\* what the subprocess of an invocation reads, or would read, from its
\* standard input
StdinView(v, ps) ==
    IF v.stdinRead # None THEN v.stdinRead[1]
    ELSE IF v.procState = "none" THEN "none"
    ELSE StdinLine(v.childStdin, ps)

\* a step of one invocation leaves the locals of the other as they were
OwnLocals == \A j \in InvIds : j # actor' => inv'[j] = inv[j]

\* a step of one invocation leaves what the other's subprocess reads as
\* it was
OwnInput ==
    \A j \in InvIds :
       j # actor' => StdinView(inv'[j], parentStdin')
                        = StdinView(inv[j], parentStdin)

\* C30: with two invocations of stream_command running concurrently, every
\* step of one invocation (its generator, its subprocess, its timer) leaves
\* the subprocess, timer, input store, lines and outcome of the other as
\* they were, and what the other's subprocess reads as well; a subprocess
\* is killed only by the timer of its own invocation, and the lines and
\* outcome of each invocation follow from its own subprocess alone.
C30_InvocationsIndependent ==
    [][(/\ OwnLocals
        /\ OwnInput
        /\ \A j \in InvIds : OwnOutcome(inv'[j]))]_vars

\* the part of C30 that is about the handle, the timer and the store
C30_LocalsIndependent ==
    [][(/\ OwnLocals
        /\ \A j \in InvIds : OwnOutcome(inv'[j]))]_vars

----------------------------------------------------------------------------
(* Several generators of one Conversation *)

\* every variable but the Conversation's turns and its two generators
turnFrame == <<mode, timeout, input_data, parentStdin, environ, env,
               max_turns, jsonVars, procVars, pc, childStdin, nread,
               nreadErr, yielded, timer, store, stderrRead, result, cause,
               storeText, merged_env, auth_provider, client, conversation,
               newResult, output_format, cmd, nconv, errPipe>>

\* what run_command gives send: the subprocess exited with 0 or with 1
SendRuns ==
    {[kind |-> "return", exit_code |-> Some(c), stdout |-> Some(<<>>),
      stderr |-> Some(<<>>), msg |-> ""] : c \in ExitCodes}

\* conversation.stream(prompt) or stream_json(prompt) gives generator i,
\* and its first next() runs the validation and reaches the first yield
GenStart(i) ==
    /\ inv[i].pc = "init"
    /\ IF TurnsExhausted(max_turns, turn_count)
       THEN inv' = [inv EXCEPT
                       ![i].pc = "raised",
                       ![i].result = ValidationError(
                           "Conversation has reached the maximum number of turns")]
       ELSE inv' = [inv EXCEPT ![i].pc = "suspended"]
    /\ actor' = i
    /\ UNCHANGED <<turnFrame, convVars>>

\* a later next() of generator i finds the inner sequence ended, normally
\* or with an error
GenEnd(i) ==
    /\ inv[i].pc = "suspended"
    /\ \E ipc \in {"done", "raised"} :
          /\ inv' = [inv EXCEPT
                        ![i].pc = ipc,
                        ![i].result =
                            IF ipc = "done" THEN Exc("StopIteration")
                            ELSE ExitError(1, <<>>)]
          /\ turn_count' = StreamTurnCount(ipc, turn_count)
    /\ actor' = i
    /\ UNCHANGED <<turnFrame, cpc, convResult>>

\* generator i is closed or dropped, and the next call of stream or
\* stream_json gives a new one
GenClose(i) ==
    /\ inv[i].pc \in {"suspended", "done", "raised"}
    /\ inv' = [inv EXCEPT ![i] = FreshInv]
    /\ actor' = i
    /\ UNCHANGED <<turnFrame, convVars>>

\* conversation.send(prompt), from the call to its return or raise
TurnSend ==
    /\ IF TurnsExhausted(max_turns, turn_count)
       THEN /\ convResult' = ValidationError(
                   "Conversation has reached the maximum number of turns")
            /\ cpc' = "raised"
            /\ UNCHANGED turn_count
       ELSE \E r \in SendRuns :
               /\ convResult' = SendOutcome(r)
               /\ cpc' = IF r.exit_code = Some(0) THEN "returned" ELSE "raised"
               /\ turn_count' = NextTurnCount(r, turn_count)
    /\ actor' = 0
    /\ UNCHANGED <<turnFrame, inv>>

\* one Conversation with max_turns set
TurnsInit ==
    /\ mode = "turns"
    /\ timeout = None
    /\ input_data = None
    /\ parentStdin = "eof"
    /\ environ \in {e \in Environs : "ANTHROPIC_MODEL" \in DOMAIN e}
    /\ env = None
    /\ max_turns \in {Some(1), Some(2)}
    /\ output_format = "text"
    /\ conversation = ConversationWith(max_turns, timeout, output_format)
    /\ Start
    /\ errPipe = [cap |-> MaxErr, blocked |-> FALSE]

TurnsNext ==
    \/ TurnSend
    \/ \E i \in InvIds : GenStart(i) \/ GenEnd(i) \/ GenClose(i)

TurnsSpec == TurnsInit /\ [][TurnsNext]_vars

----------------------------------------------------------------------------
(* Properties of several generators of one Conversation *)

\* C31: on one Conversation with max_turns set, turn_count never exceeds
\* max_turns, whatever the order in which sends are made and generators of
\* stream and stream_json are started, pulled and exhausted.
C31_TurnCountWithinMaxTurns ==
    TruthyInt(max_turns) => turn_count <= max_turns[1]

----------------------------------------------------------------------------
(* stream_command over a stderr pipe of small capacity *)

\* bytes the stderr pipe holds before a write to it blocks
ErrPipeCap == 1

\* the subprocess has more to write to stderr and the pipe is full: the
\* write blocks, until the caller takes bytes out of the pipe, which
\* stream_command does only after process.wait() has returned
ProcWriteErrFull ==
    /\ CanAct
    /\ Len(errWritten) < MaxErr
    /\ Len(errWritten) - nreadErr >= errPipe.cap
    /\ errPipe' = [errPipe EXCEPT !.blocked = TRUE]
    /\ UNCHANGED <<argVars, jsonVars, convVars, procVars, auth_provider,
                   client, conversation, newResult, output_format, cmd,
                   nconv, inv, actor, cause, storeText, merged_env, pc,
                   childStdin, nread, nreadErr, yielded, timer, store,
                   stderrRead, result>>

\* one call of stream_command with no timeout
ErrInit ==
    /\ mode = "stream"
    /\ timeout = None
    /\ input_data \in {None, Some(<<"p">>)}
    /\ parentStdin = "eof"
    /\ environ \in {e \in Environs : "ANTHROPIC_MODEL" \in DOMAIN e}
    /\ env = None
    /\ max_turns = None
    /\ conversation = None
    /\ output_format = "text"
    /\ errPipe = [cap |-> ErrPipeCap, blocked |-> FALSE]
    /\ Start

ErrNext ==
    \/ ProcReadStdin
    \/ ProcStdinEOF
    \/ ProcWrite
    \/ ProcWriteErr
    \/ ProcWriteErrFull
    \/ ProcCloseStdout
    \/ ProcExit
    \/ StreamStart
    \/ StreamSpawnFail
    \/ Pull
    \/ StreamYield
    \/ StreamDecodeError
    \/ StreamEOF
    \/ StreamFinish
    \/ Abandon

ErrSpec == ErrInit /\ [][ErrNext]_vars

----------------------------------------------------------------------------
(* Properties of stream_command over a small stderr pipe *)

\* C32: with no timeout, a pull of stream_command that is under way never
\* waits for a subprocess that is itself blocked in a write to a full
\* stderr pipe (nothing takes bytes out of that pipe before the subprocess
\* has exited, so such a pull would never return).
C32_PullNeverStuckOnStderr ==
    ~(/\ mode = "stream"
      /\ timer = "none"
      /\ pc \in {"reading", "waiting"}
      /\ nread = Len(written)
      /\ procState = "running"
      /\ errPipe.blocked)

----------------------------------------------------------------------------
(* Properties of the stream_command generator's lifetime *)

\* C33: once the stream_command generator has terminated, by exhaustion,
\* by a raised error or by being abandoned, its timer is not pending.
C33_NoPendingTimerAfterEnd ==
    (mode = "stream" /\ pc \in {"done", "raised", "closed"})
        => timer # "pending"

----------------------------------------------------------------------------
(* ClaudeCode.configure *)

\* client.configure(...): every argument that is not None is assigned, then
\* the two tool lists are checked
Configure ==
    /\ client # None
    /\ \E a \in [allowed_tools : ToolLists,
                 disallowed_tools : {None, Some(<<"Bash">>)},
                 max_turns : {None, Some(1)}, model : {None, Some("own")}] :
          LET c == client[1]
              n == [c EXCEPT
                       !.allowed_tools =
                           IF a.allowed_tools # None
                           THEN a.allowed_tools ELSE @,
                       !.disallowed_tools =
                           IF a.disallowed_tools # None
                           THEN a.disallowed_tools ELSE @,
                       !.max_turns =
                           IF a.max_turns # None THEN a.max_turns ELSE @,
                       !.auth_provider.model =
                           IF a.model # None THEN a.model ELSE @]
          IN  /\ client' = Some(n)
              /\ newResult' =
                     IF Overlap(n.allowed_tools, n.disallowed_tools) # {}
                     THEN Outcome("configure", a, "ValidationError",
                              "Tools cannot be both allowed and disallowed")
                     ELSE Outcome("configure", a, "ok", "")
    /\ UNCHANGED <<argVars, jsonVars, convVars, procVars, pc, childStdin,
                   nread, nreadErr, yielded, timer, store, stderrRead, result,
                   cause, storeText, merged_env, auth_provider, conversation,
                   output_format, cmd, nconv, inv, actor, errPipe>>

ConfigNext ==
    \/ ClientNew
    \/ Configure

ConfigSpec == ClientInit /\ [][ConfigNext]_vars

----------------------------------------------------------------------------
(* Properties of ClaudeCode.configure *)

\* C35: a constructed client never has a tool in both of its lists, after
\* any sequence of configure calls, and a configure call that fails with
\* ValidationError leaves the client's configuration as it was.
C35_ConfigureKeepsToolsDisjoint ==
    [][(/\ client' # None
              => Overlap(client'[1].allowed_tools,
                         client'[1].disallowed_tools) = {}
        /\ (newResult'.call = "configure"
              /\ newResult'.kind = "ValidationError")
              => client' = client)]_vars

----------------------------------------------------------------------------
(* Pulls on a generator that has ended *)

\* the generator has finished: it returned, raised, or was closed
Ended(p) == p \in {"done", "raised", "closed"}

\* a pull on a finished generator runs its body again from the top
PullEndedRestarts ==
    /\ mode = "stream"
    /\ Ended(pc)
    /\ pc' = "init"
    /\ UNCHANGED <<argVars, objVars, jsonVars, convVars, procVars, cause,
                   storeText, merged_env, childStdin, nread, nreadErr,
                   yielded, timer, store, stderrRead, result>>

\* next() on a generator of stream_command or of stream_json_command that
\* has finished: Python raises StopIteration and runs none of its body
PullEnded ==
    /\ IF mode = "stream"
       THEN /\ Ended(pc)
            /\ result' = Exc("StopIteration")
            /\ UNCHANGED jresult
       ELSE /\ mode = "json"
            /\ Ended(jpc)
            /\ jresult' = Exc("StopIteration")
            /\ UNCHANGED result
    /\ UNCHANGED <<argVars, objVars, convVars, procVars, pc, jpc, nproc,
                   records, cause, storeText, merged_env, childStdin, nread,
                   nreadErr, yielded, timer, store, stderrRead>>

\* one call of stream_command or of stream_json_command
LazyInit == JsonInit \/ (Init /\ mode = "stream")

LazyNext == JsonNext \/ PullEnded

LazySpec == LazyInit /\ [][LazyNext]_vars

----------------------------------------------------------------------------
(* Properties of the generators' laziness *)

\* C36: a call of stream_command or stream_json_command has no subprocess
\* and no temporary store until its first pull; a subprocess is spawned
\* only by the first pull, so at most once per call; and once the sequence
\* has ended, normally or with an error, a further pull yields nothing and
\* spawns nothing.
C36_LazySingleSpawn ==
    [][(/\ pc' = "init"
              => (procState' = "none" /\ store' = "none"
                     /\ storeText' = None)
        /\ (mode = "json" /\ jpc' = "init") => pc' = "init"
        /\ (procState = "none" /\ procState' # "none")
              => (pc = "init" /\ pc' = "reading")
        /\ procState # "none" => procState' # "none"
        /\ pc # "init" => pc' # "init"
        /\ Ended(pc)
              => (pc' = pc /\ yielded' = yielded
                     /\ (procState = "none" => procState' = "none"))
        /\ (mode = "json" /\ Ended(jpc))
              => (jpc' = jpc /\ records' = records))]_vars

C36_Witness ==
    /\ mode = "stream"
    /\ pc = "raised"
    /\ result.kind = "StopIteration"
    /\ procState = "reaped"
    /\ Len(yielded) = 1

====
